---- MODULE Spec2Model ----
(***************************************************************************)
(* Workspace object store of ironclaw (apps/web): the layered              *)
(* workspace.duckdb files, the locator and multi-file query helpers of     *)
(* lib/workspace.ts, and the mutation routes (enum rename, bulk delete).   *)
(*                                                                         *)
(* Strings whose content the code inspects (object names, enum values,     *)
(* SQL literals) are sequences of one-character strings; ids that are only *)
(* compared are atomic strings.  A database file is a natural number: its  *)
(* position in the depth-sorted result of discoverDuckDBPaths.             *)
(***************************************************************************)
EXTENDS Integers, Sequences, FiniteSets, TLC

VARIABLES
    objects,        \* [file -> set of rows of table objects]
    fields,         \* [file -> set of rows of table fields]
    entries,        \* [file -> set of rows of table entries]
    entry_fields,   \* [file -> set of rows of table entry_fields]
    req,            \* the call being answered (its arguments)
    resp,           \* its return value / HTTP response
    log,            \* the write statements the call issued, in order
    before,         \* the tables as the call found them
    nreq,           \* number of route requests handled so far
    migratedDbs     \* the files this process has run the schema migration on

vars == <<objects, fields, entries, entry_fields, req, resp, log, before, nreq,
          migratedDbs>>
db == <<objects, fields, entries, entry_fields>>

----------------------------------------------------------------------------
(* Bounds *)

NumFiles == 2       \* discovered workspace.duckdb files
MaxRequests == 1    \* mutation requests per behaviour
MaxIds == 2         \* length of the entryIds array of a bulk delete

----------------------------------------------------------------------------
(* Strings *)

Empty == <<>>
Blank == <<" ">>
ValA == <<"a">>
ValPadA == <<" ", "a">>
ValB == <<"b">>
ValC == <<"c", "'">>

\* String.prototype.trim
RECURSIVE TrimStart(_)
TrimStart(s) ==
    IF s # <<>> /\ Head(s) = " " THEN TrimStart(Tail(s)) ELSE s

RECURSIVE TrimEnd(_)
TrimEnd(s) ==
    IF s # <<>> /\ s[Len(s)] = " " THEN TrimEnd(SubSeq(s, 1, Len(s) - 1)) ELSE s

trim(s) == TrimEnd(TrimStart(s))

\* s.replace(/'/g, "''")
RECURSIVE sqlEscape(_)
sqlEscape(s) ==
    IF s = <<>> THEN <<>>
    ELSE (IF Head(s) = "'" THEN <<"'", "'">> ELSE <<Head(s)>>) \o sqlEscape(Tail(s))

\* sql.replace(/'/g, "'\\''"): the statement is passed as one single-quoted
\* shell word.
RECURSIVE shellEscape(_)
shellEscape(s) ==
    IF s = <<>> THEN <<>>
    ELSE (IF Head(s) = "'" THEN <<"'", "\\", "'", "'">> ELSE <<Head(s)>>)
            \o shellEscape(Tail(s))

\* What /bin/sh hands to the engine for the word '<body>': a quote closes the
\* word unless it opens the sequence '\'' (close, escaped quote, reopen).
RECURSIVE ShellWord(_)
ShellWord(body) ==
    IF body = <<>> THEN <<>>
    ELSE IF Head(body) # "'" THEN <<Head(body)>> \o ShellWord(Tail(body))
    ELSE IF Len(body) >= 4 /\ SubSeq(body, 1, 4) = <<"'", "\\", "'", "'">>
         THEN <<"'">> \o ShellWord(SubSeq(body, 5, Len(body)))
    ELSE <<>>

\* The value the engine reads from the SQL literal '<body>': a doubled quote
\* is one quote, a single quote ends the literal.
RECURSIVE SqlLiteral(_)
SqlLiteral(body) ==
    IF body = <<>> THEN <<>>
    ELSE IF Head(body) # "'" THEN <<Head(body)>> \o SqlLiteral(Tail(body))
    ELSE IF Len(body) >= 2 /\ body[2] = "'"
         THEN <<"'">> \o SqlLiteral(SubSeq(body, 3, Len(body)))
    ELSE <<>>

\* A value interpolated as '${sqlEscape(v)}' into a statement that is then
\* shell-escaped, as the engine receives it.
Interpolated(v) == SqlLiteral(ShellWord(shellEscape(sqlEscape(v))))

----------------------------------------------------------------------------
(* The workspace: files, tables, rows *)

Files == 1..NumFiles
NoDb == 0                       \* null: no database file

\* discoverDuckDBPaths(): the files, shallowest first.
discoverDuckDBPaths == [i \in 1..NumFiles |-> i]

Task == <<"T">>
Proj == <<"P">>

JsonNull == [kind |-> "null", items |-> <<>>]
JsonArray(s) == [kind |-> "array", items |-> s]

ObjectRow(id, name) == [id |-> id, name |-> name]
FieldRow(id, oid, ev, ec) ==
    [id |-> id, object_id |-> oid, enum_values |-> ev, enum_colors |-> ec]
EntryRow(id, oid) == [id |-> id, object_id |-> oid]
EntryFieldRow(eid, fid, v) == [entry_id |-> eid, field_id |-> fid, value |-> v]

\* Rows a file can start with.  Ids are unique within a file; the root file
\* (depth 0) and the deeper files use different object ids and share field
\* and entry ids.  f1 is an enum field of Task, f2 a text field of Proj.
CandidateObjects(f) ==
    IF f = 1 THEN {ObjectRow("o1", Task), ObjectRow("o2", Proj)}
    ELSE {ObjectRow("o3", Task), ObjectRow("o4", Proj)}

AllFields(f) ==
    LET t == IF f = 1 THEN "o1" ELSE "o3"
        p == IF f = 1 THEN "o2" ELSE "o4"
    IN  { FieldRow("f1", t, JsonArray(<<ValA, ValB>>), JsonArray(<<"#1", "#2">>)),
          FieldRow("f2", p, JsonNull, JsonNull) }

AllEntries(f) ==
    IF f = 1 THEN {EntryRow("e1", "o1"), EntryRow("e2", "o1"), EntryRow("e3", "o2")}
    ELSE {EntryRow("e1", "o3"), EntryRow("e3", "o4")}

AllEntryFields(f) ==
    IF f = 1
    THEN { EntryFieldRow("e1", "f1", ValA), EntryFieldRow("e2", "f1", ValB),
           EntryFieldRow("e3", "f2", ValA) }
    ELSE { EntryFieldRow("e1", "f1", ValA), EntryFieldRow("e3", "f2", ValA) }

\* A file starts with no object, with Task only, or with Task and Proj.
Placements(f) ==
    {{}, {o \in CandidateObjects(f) : o.name = Task}, CandidateObjects(f)}

ObjectIds(objs) == {o.id : o \in objs}

\* The rows of a set in the order the engine returns them.
RECURSIVE SeqOf(_)
SeqOf(S) ==
    IF S = {} THEN <<>>
    ELSE LET r == CHOOSE x \in S : TRUE IN <<r>> \o SeqOf(S \ {r})

----------------------------------------------------------------------------
(* The engine: one process per statement; any invocation may fail *)

\* An engine environment for one call: whether resolveDuckdbBin() finds the
\* binary, the files on which the locator's / aggregate's own invocation
\* fails (error exit or timeout), and the statements of a route that fail.
\* A route stops at its first failing query, so the statement failures that
\* differ in effect are: one of the queries, or any subset of the writes.
StatementFailures == {{"objects"}, {"fields"}} \cup SUBSET {"write1", "write2"}
EngineRuns ==
    {[bin |-> FALSE, failFiles |-> {}, failStmts |-> {}]}
    \cup [bin : {TRUE}, failFiles : SUBSET Files, failStmts : StatementFailures]
LocatorRuns == {r \in EngineRuns : r.failStmts = {}}
\* A route sees the locator only through the file it returns; failing the k
\* shallowest files, for every k, yields every file the locator can return.
\* When every file fails the locator returns null and the route issues no
\* statement, so statement failures are drawn only when some file answers.
RouteRuns ==
    {r \in EngineRuns : \E k \in 0..NumFiles :
        /\ r.failFiles = 1..k
        /\ (k = NumFiles => r.failStmts = {})}
AllSucceed(run) == run.bin /\ run.failFiles = {} /\ run.failStmts = {}

resolveDuckdbBin(run) == run.bin

\* SELECT id FROM objects WHERE name = '<name>' LIMIT 1, on file f.
SelectObjectByName(f, name) ==
    SeqOf({o \in objects[f] : o.name = Interpolated(name)})

\* A locator that keeps scanning after a match and answers the deepest file.
FindFromDeepest(i, objectName, run) ==
    LET dbPaths == discoverDuckDBPaths
        hits == {j \in i..Len(dbPaths) :
                    /\ dbPaths[j] \notin run.failFiles
                    /\ SelectObjectByName(dbPaths[j], objectName) # <<>>}
    IN  IF hits = {} THEN NoDb
        ELSE dbPaths[CHOOSE j \in hits : \A k \in hits : k <= j]

\* findDuckDBForObject: the first discovered file whose existence query
\* returns a row; a failing invocation moves on to the next file.
RECURSIVE FindFrom(_, _, _)
FindFrom(i, objectName, run) ==
    LET dbPaths == discoverDuckDBPaths IN
    IF i > Len(dbPaths) THEN NoDb
    ELSE IF dbPaths[i] \notin run.failFiles
            /\ SelectObjectByName(dbPaths[i], objectName) # <<>>
         THEN dbPaths[i]
    ELSE FindFrom(i + 1, objectName, run)

findDuckDBForObject(objectName, run) ==
    IF Len(discoverDuckDBPaths) = 0 THEN NoDb
    ELSE IF ~resolveDuckdbBin(run) THEN NoDb
    ELSE FindFrom(1, objectName, run)

\* An engine invocation: the statement and the file it runs on.
Stmt(sql, f) == [sql |-> sql, file |-> f]

\* The invocations findDuckDBForObject makes: one per file, up to and
\* including the file it returns.
FindIssued(objectName, run) ==
    LET dbPaths == discoverDuckDBPaths
        hit == findDuckDBForObject(objectName, run)
        last == IF hit = NoDb THEN Len(dbPaths)
                ELSE CHOOSE i \in DOMAIN dbPaths : dbPaths[i] = hit
    IN  IF ~resolveDuckdbBin(run) THEN <<>>
        ELSE [i \in 1..last |-> Stmt("SELECT id FROM objects WHERE name", dbPaths[i])]

\* The statements passed to duckdbQueryAll: a scan of one table, deduplicated
\* on one of its columns ("" is no dedupeKey).
Queries ==
    { [table |-> "objects", dedupeKey |-> "name"],
      [table |-> "objects", dedupeKey |-> ""],
      [table |-> "entry_fields", dedupeKey |-> "field_id"],
      [table |-> "entry_fields", dedupeKey |-> ""] }

TableRows(f, table) ==
    IF table = "objects" THEN SeqOf(objects[f]) ELSE SeqOf(entry_fields[f])

\* A merge that never consults the seen set.
MergeRowsKeepAll(rows, dedupeKey, seen, merged) ==
    [seen |-> seen, merged |-> merged \o rows]

\* The inner loop of duckdbQueryAll over the rows of one file.
RECURSIVE MergeRows(_, _, _, _)
MergeRows(rows, dedupeKey, seen, merged) ==
    IF rows = <<>> THEN [seen |-> seen, merged |-> merged]
    ELSE LET row == Head(rows) IN
         IF dedupeKey # "" /\ row[dedupeKey] \in seen
         THEN MergeRows(Tail(rows), dedupeKey, seen, merged)
         ELSE MergeRows(Tail(rows), dedupeKey,
                        IF dedupeKey # "" THEN seen \cup {row[dedupeKey]} ELSE seen,
                        Append(merged, row))

\* The outer loop over the discovered files; a failing file is skipped.
RECURSIVE MergeFiles(_, _, _, _, _)
MergeFiles(i, q, run, seen, merged) ==
    LET dbPaths == discoverDuckDBPaths IN
    IF i > Len(dbPaths) THEN merged
    ELSE IF dbPaths[i] \in run.failFiles
         THEN MergeFiles(i + 1, q, run, seen, merged)
    ELSE LET m == MergeRows(TableRows(dbPaths[i], q.table), q.dedupeKey, seen, merged)
         IN  MergeFiles(i + 1, q, run, m.seen, m.merged)

duckdbQueryAll(q, run) ==
    IF Len(discoverDuckDBPaths) = 0 THEN <<>>
    ELSE IF ~resolveDuckdbBin(run) THEN <<>>
    ELSE MergeFiles(1, q, run, {}, <<>>)

\* The same loop with awaited invocations.
duckdbQueryAllAsync(q, run) ==
    IF Len(discoverDuckDBPaths) = 0 THEN <<>>
    ELSE IF ~resolveDuckdbBin(run) THEN <<>>
    ELSE MergeFiles(1, q, run, {}, <<>>)

----------------------------------------------------------------------------
(* State machine *)

NoReq == [op |-> "none"]
NoResp == [status |-> 0]

Init ==
    /\ objects \in [Files -> UNION {Placements(f) : f \in Files}]
    /\ \A f \in Files : objects[f] \in Placements(f)
    /\ fields = [f \in Files |->
                    {r \in AllFields(f) : r.object_id \in ObjectIds(objects[f])}]
    /\ entries = [f \in Files |->
                    {r \in AllEntries(f) : r.object_id \in ObjectIds(objects[f])}]
    /\ entry_fields = [f \in Files |->
                    {r \in AllEntryFields(f) :
                        r.entry_id \in {e.id : e \in entries[f]}}]
    /\ req = NoReq
    /\ resp = NoResp
    /\ log = <<>>
    /\ before = <<>>
    /\ nreq = 0
    /\ migratedDbs = {}

ObjectNames == {Task, Proj}

\* A caller asks which file owns objectName.
FindCall(objectName, run) ==
    /\ req = NoReq
    /\ req' = [op |-> "findDuckDBForObject", name |-> objectName, run |-> run]
    /\ resp' = [status |-> 0, result |-> findDuckDBForObject(objectName, run)]
    /\ UNCHANGED <<db, log, before, nreq, migratedDbs>>

\* A caller runs an aggregate query over all files.
QueryAllCall(q, run) ==
    /\ req = NoReq
    /\ req' = [op |-> "duckdbQueryAll", query |-> q, run |-> run]
    /\ resp' = [status |-> 0, rows |-> duckdbQueryAll(q, run)]
    /\ UNCHANGED <<db, log, before, nreq, migratedDbs>>

QueryAllAsyncCall(q, run) ==
    /\ req = NoReq
    /\ req' = [op |-> "duckdbQueryAllAsync", query |-> q, run |-> run]
    /\ resp' = [status |-> 0, rows |-> duckdbQueryAllAsync(q, run)]
    /\ UNCHANGED <<db, log, before, nreq, migratedDbs>>

\* The result is handed to the caller.
Return ==
    /\ req # NoReq
    /\ req' = NoReq
    /\ resp' = NoResp
    /\ log' = <<>>
    /\ before' = <<>>
    /\ UNCHANGED <<db, nreq, migratedDbs>>

NextLocator ==
    \/ \E n \in ObjectNames, run \in LocatorRuns : FindCall(n, run)
    \/ \E q \in Queries, run \in LocatorRuns : QueryAllCall(q, run)
    \/ \E q \in Queries, run \in LocatorRuns : QueryAllAsyncCall(q, run)
    \/ Return

SpecLocator == Init /\ [][NextLocator]_vars

----------------------------------------------------------------------------
(* Route helpers *)

\* /^[a-zA-Z_][a-zA-Z0-9_]*$/ over the characters object names are drawn from.
IdStart == {"T", "P", "x", "_"}
IdPart == IdStart \cup {"0", "1"}
\* A check that accepts every non-empty name.
IsNonEmpty(name) == name # <<>>

IsIdentifier(name) ==
    /\ name # <<>>
    /\ name[1] \in IdStart
    /\ \A i \in 2..Len(name) : name[i] \in IdPart

\* The outcome of a call: a value handed to the caller, or an exception.
Returned(v) == [raised |-> FALSE, value |-> v]
Thrown(why) == [raised |-> TRUE, error |-> why]

\* execSync / execAsync of one engine invocation: the process's stdout, or
\* an exception when the process fails or runs past the timeout.
execSync(exec) ==
    IF exec.failure # "none" THEN Thrown(exec.failure) ELSE Returned(exec.stdout)

\* A catch block that lets a timeout through.
CatchRethrowingTimeout(attempt, sentinel) ==
    IF attempt.raised /\ attempt.error # "timeout" THEN Returned(sentinel) ELSE attempt

\* try { ... } catch { return sentinel; }
Catch(attempt, sentinel) ==
    IF attempt.raised THEN Returned(sentinel) ELSE attempt

\* The body the four query helpers share once they have a file: no binary
\* gives [], and so does anything thrown by the invocation or by JSON.parse.
TryQuery(bin, exec) ==
    IF ~bin THEN Returned(<<>>)
    ELSE Catch(
            LET result == execSync(exec) IN
            IF result.raised THEN result
            ELSE IF result.value.text \in {"", "[]"} THEN Returned(<<>>)
            ELSE IF result.value.text = "rows" THEN Returned(result.value.rows)
            ELSE Thrown("SyntaxError"),
            <<>>)

\* duckdbQuery and duckdbQueryAsync: the same on the file duckdbPath() gives.
duckdbQuery(dbPath, bin, exec) ==
    IF dbPath = NoDb THEN Returned(<<>>) ELSE TryQuery(bin, exec)

\* The body of duckdbExecOnFile.
TryExec(bin, exec) ==
    IF ~bin THEN Returned(FALSE)
    ELSE Catch(
            LET result == execSync(exec) IN
            IF result.raised THEN result ELSE Returned(TRUE),
            FALSE)

\* duckdbQueryOnFile: the rows the engine answers, [] on any failure.
duckdbQueryOnFile(run, stmt, rows) ==
    TryQuery(resolveDuckdbBin(run),
             IF stmt \in run.failStmts
             THEN [failure |-> "malformed SQL"]
             ELSE [failure |-> "none",
                   stdout |-> [text |-> IF rows = <<>> THEN "[]" ELSE "rows",
                               rows |-> rows]]).value

\* duckdbExecOnFile: true iff the process exited without error; a failed
\* statement leaves the file as it was.
duckdbExecOnFile(run, stmt) ==
    TryExec(resolveDuckdbBin(run),
            IF stmt \in run.failStmts
            THEN [failure |-> "malformed SQL"]
            ELSE [failure |-> "none", stdout |-> [text |-> "", rows |-> <<>>]]).value

\* One call of a helper: with or without a binary, on an invocation that
\* fails in one of the ways an invocation can, or that prints nothing, an
\* empty array, rows, or text that is no JSON.
HelperCall(helper, dbPath, bin, exec) ==
    /\ req = NoReq /\ nreq < MaxRequests
    /\ req' = [op |-> helper, dbPath |-> dbPath, bin |-> bin, exec |-> exec]
    /\ resp' = CASE helper \in {"duckdbQuery", "duckdbQueryAsync"} ->
                        duckdbQuery(dbPath, bin, exec)
                 [] helper \in {"duckdbQueryOnFile", "duckdbQueryOnFileAsync"} ->
                        TryQuery(bin, exec)
                 [] OTHER -> TryExec(bin, exec)
    /\ nreq' = nreq + 1
    /\ UNCHANGED <<db, log, before, migratedDbs>>

NextHelpers ==
    \/ \E helper \in {"duckdbQuery", "duckdbQueryAsync", "duckdbQueryOnFile",
                      "duckdbQueryOnFileAsync", "duckdbExecOnFile"},
          dbPath \in {NoDb} \cup Files, bin \in BOOLEAN,
          exec \in [failure : {"missing file", "malformed SQL", "timeout"}]
                   \cup [failure : {"none"},
                         stdout : [text : {"", "[]", "garbage"}, rows : {<<>>}]
                                  \cup [text : {"rows"},
                                        rows : {<<[id |-> "e1"]>>,
                                                <<[id |-> "e1"], [id |-> "e2"]>>}]] :
            /\ (dbPath = NoDb => helper \in {"duckdbQuery", "duckdbQueryAsync"})
            /\ HelperCall(helper, dbPath, bin, exec)
    \/ Return

SpecHelpers == Init /\ [][NextHelpers]_vars

\* Array.prototype.indexOf, 1-based; 0 is JavaScript's -1.
IndexOf(seq, v) ==
    IF \E i \in DOMAIN seq : seq[i] = v
    THEN CHOOSE i \in DOMAIN seq : seq[i] = v /\ \A j \in 1..(i - 1) : seq[j] # v
    ELSE 0

\* A JSON value of a response body.
JsonBool(b) == [t |-> "boolean", v |-> b]

ErrorResponse(status, message) == [status |-> status, error |-> message]

----------------------------------------------------------------------------
(* PATCH /api/workspace/objects/[name]/fields/[fieldId]/enum-rename *)

\* SELECT id, enum_values, enum_colors FROM fields
\*   WHERE id = '<fieldId>' AND object_id = '<objectId>'
SelectField(f, fieldId, objectId) ==
    SeqOf({r \in fields[f] : r.id = fieldId /\ r.object_id = objectId})

\* A comparison of the raw strings.
SameRaw(oldValue, newValue) == oldValue = newValue

\* oldValue.trim() === newValue.trim()
SameAfterTrim(oldValue, newValue) == trim(oldValue) = trim(newValue)

\* A duplicate guard that never fires.
NeverIncludes(seq, v) == FALSE

\* enumValues.includes(v)
Includes(seq, v) == \E i \in DOMAIN seq : seq[i] = v

\* A rename that drops the old value and appends the new one.
RemoveAndAppend(enumValues, idx, value) ==
    SubSeq(enumValues, 1, idx - 1)
        \o SubSeq(enumValues, idx + 1, Len(enumValues)) \o <<value>>

\* enumValues[idx] = newValue.trim()
ReplaceAt(enumValues, idx, value) == [enumValues EXCEPT ![idx] = value]

\* UPDATE fields SET enum_values = '<json>' WHERE id = '<fieldId>'
UpdateFieldEnumValues(rows, fieldId, enumValues) ==
    { IF r.id = fieldId
      THEN [r EXCEPT !.enum_values =
                JsonArray([i \in DOMAIN enumValues |-> Interpolated(enumValues[i])])]
      ELSE r : r \in rows }

\* UPDATE entry_fields SET value = '<new>'
\*   WHERE field_id = '<fieldId>' AND value = '<old>'
UpdateEntryFieldValues(rows, fieldId, old, new) ==
    { IF r.field_id = fieldId /\ r.value = Interpolated(old)
      THEN [r EXCEPT !.value = Interpolated(new)]
      ELSE r : r \in rows }

\* The handler's outcome: the response, the tables of the owner file it
\* leaves behind and the writes it issued.
Unwritten(response, dbFile, issued) ==
    [resp |-> response, dbFile |-> dbFile, fields |-> fields,
     entry_fields |-> entry_fields, log |-> <<>>, issued |-> issued]

PATCH(name, fieldId, oldValue, newValue, run) ==
    IF ~IsIdentifier(name)
    THEN Unwritten(ErrorResponse(400, "Invalid object name"), NoDb, <<>>)
    ELSE
    LET dbFile == findDuckDBForObject(name, run)
        found == FindIssued(name, run)
    IN
    IF dbFile = NoDb
    THEN Unwritten(ErrorResponse(404, "DuckDB not found"), NoDb, found)
    ELSE IF oldValue = <<>> \/ newValue = <<>>
    THEN Unwritten(ErrorResponse(400, "oldValue and newValue are required"), dbFile,
                   found)
    ELSE IF SameAfterTrim(oldValue, newValue)
    THEN Unwritten([status |-> 200, ok |-> TRUE, changed |-> 0], dbFile, found)
    ELSE
    LET objs == duckdbQueryOnFile(run, "objects", SelectObjectByName(dbFile, name))
        q1 == Append(found, Stmt("SELECT id FROM objects WHERE name", dbFile))
    IN
    IF Len(objs) = 0
    THEN Unwritten(ErrorResponse(404, "Object not found"), dbFile, q1)
    ELSE
    LET objectId == objs[1].id
        flds == duckdbQueryOnFile(run, "fields", SelectField(dbFile, fieldId, objectId))
        q2 == Append(q1, Stmt("SELECT FROM fields WHERE id", dbFile))
    IN
    IF Len(flds) = 0
    THEN Unwritten(ErrorResponse(404, "Field not found"), dbFile, q2)
    ELSE
    LET field == flds[1]
        enumValues == IF field.enum_values.kind = "null" THEN <<>>
                      ELSE field.enum_values.items
        idx == IndexOf(enumValues, trim(oldValue))
    IN
    IF idx = 0
    THEN Unwritten(ErrorResponse(404, "Enum value not found"), dbFile, q2)
    ELSE IF Includes(enumValues, trim(newValue))
    THEN Unwritten(ErrorResponse(409, "Enum value already exists"), dbFile, q2)
    ELSE
    LET renamed == ReplaceAt(enumValues, idx, trim(newValue))
        ok1 == duckdbExecOnFile(run, "write1")
        updatedEntries == duckdbExecOnFile(run, "write2")
    IN  [ resp |-> [status |-> 200, ok |-> TRUE, updated |-> JsonBool(updatedEntries)],
          dbFile |-> dbFile,
          fields |->
            IF ok1
            THEN [fields EXCEPT ![dbFile] =
                    UpdateFieldEnumValues(fields[dbFile], fieldId, renamed)]
            ELSE fields,
          entry_fields |->
            IF updatedEntries
            THEN [entry_fields EXCEPT ![dbFile] =
                    UpdateEntryFieldValues(entry_fields[dbFile], fieldId,
                                           trim(oldValue), trim(newValue))]
            ELSE entry_fields,
          log |-> << [stmt |-> "UPDATE fields", ok |-> ok1],
                     [stmt |-> "UPDATE entry_fields", ok |-> updatedEntries] >>,
          issued |-> q2 ]

RequestNames == {Task, Proj, <<"T", "-", "x">>}
FieldIds == {"f1", "f2"}
RequestValues == {Empty, Blank, ValA, ValPadA, ValB, ValC}

Snapshot == [fields |-> fields, entries |-> entries, entry_fields |-> entry_fields]

\* The route answers one enum-rename request.
EnumRename(name, fieldId, oldValue, newValue, run) ==
    /\ req = NoReq
    /\ nreq < MaxRequests
    /\ LET out == PATCH(name, fieldId, oldValue, newValue, run) IN
        /\ req' = [op |-> "enumRename", name |-> name, fieldId |-> fieldId,
                   oldValue |-> oldValue, newValue |-> newValue,
                   dbFile |-> out.dbFile, queriesOk |-> run.bin /\
                       run.failStmts \cap {"objects", "fields"} = {},
                   bin |-> run.bin, issued |-> out.issued]
        /\ resp' = out.resp
        /\ fields' = out.fields
        /\ entry_fields' = out.entry_fields
        /\ log' = out.log
    /\ before' = Snapshot
    /\ nreq' = nreq + 1
    /\ UNCHANGED <<objects, entries, migratedDbs>>

Idle == req = NoReq /\ nreq < MaxRequests

EnumRenameRequest ==
    /\ Idle
    /\ \E n \in RequestNames, fid \in FieldIds, old \in RequestValues,
          new \in RequestValues, run \in RouteRuns :
            EnumRename(n, fid, old, new, run)

NextRename ==
    \/ EnumRenameRequest
    \/ Return

SpecRename == Init /\ [][NextRename]_vars

----------------------------------------------------------------------------
(* POST /api/workspace/objects/[name]/entries/bulk-delete *)

\* DELETE FROM entry_fields WHERE entry_id IN (<ids>)
DeleteEntryFields(rows, ids) == {r \in rows : r.entry_id \notin ids}

\* A delete of entries that is not scoped to the object.
DeleteEntriesUnscoped(rows, ids, objectId) == {r \in rows : r.id \notin ids}

\* DELETE FROM entries WHERE id IN (<ids>) AND object_id = '<objectId>'
DeleteEntries(rows, ids, objectId) ==
    {r \in rows : ~(r.id \in ids /\ r.object_id = objectId)}

Range(seq) == {seq[i] : i \in DOMAIN seq}

Undeleted(response, dbFile, issued) ==
    [resp |-> response, dbFile |-> dbFile, entries |-> entries,
     entry_fields |-> entry_fields, log |-> <<>>, issued |-> issued]

BulkDeletePOST(name, entryIds, run) ==
    IF ~IsIdentifier(name)
    THEN Undeleted(ErrorResponse(400, "Invalid object name"), NoDb, <<>>)
    ELSE
    LET dbFile == findDuckDBForObject(name, run)
        found == FindIssued(name, run)
    IN
    IF dbFile = NoDb
    THEN Undeleted(ErrorResponse(404, "DuckDB not found"), NoDb, found)
    ELSE IF Len(entryIds) = 0
    THEN Undeleted(ErrorResponse(400, "entryIds must be a non-empty array"), dbFile,
                   found)
    ELSE
    LET objs == duckdbQueryOnFile(run, "objects", SelectObjectByName(dbFile, name))
        q1 == Append(found, Stmt("SELECT id FROM objects WHERE name", dbFile))
    IN
    IF Len(objs) = 0
    THEN Undeleted(ErrorResponse(404, "Object not found"), dbFile, q1)
    ELSE
    LET objectId == objs[1].id
        idList == Range(entryIds)
        ok1 == duckdbExecOnFile(run, "write1")
        ok2 == duckdbExecOnFile(run, "write2")
    IN  [ resp |-> [status |-> 200, ok |-> TRUE, deletedCount |-> Len(entryIds)],
          dbFile |-> dbFile,
          entry_fields |->
            IF ok1
            THEN [entry_fields EXCEPT ![dbFile] =
                    DeleteEntryFields(entry_fields[dbFile], idList)]
            ELSE entry_fields,
          entries |->
            IF ok2
            THEN [entries EXCEPT ![dbFile] =
                    DeleteEntries(entries[dbFile], idList, objectId)]
            ELSE entries,
          log |-> << [stmt |-> "DELETE FROM entry_fields", ok |-> ok1],
                     [stmt |-> "DELETE FROM entries", ok |-> ok2] >>,
          issued |-> q1 ]

\* Entry ids a request can name: the ids in use and one that no entry has.
RequestEntryIds == {"e1", "e2", "e3", "e9"}

RECURSIVE SeqsUpTo(_, _)
SeqsUpTo(S, n) ==
    IF n = 0 THEN {<<>>}
    ELSE LET shorter == SeqsUpTo(S, n - 1)
         IN  shorter \cup {Append(q, x) : q \in shorter, x \in S}

\* The route answers one bulk-delete request.
BulkDelete(name, entryIds, run) ==
    /\ req = NoReq
    /\ nreq < MaxRequests
    /\ LET out == BulkDeletePOST(name, entryIds, run) IN
        /\ req' = [op |-> "bulkDelete", name |-> name, entryIds |-> entryIds,
                   dbFile |-> out.dbFile, bin |-> run.bin, issued |-> out.issued]
        /\ resp' = out.resp
        /\ entries' = out.entries
        /\ entry_fields' = out.entry_fields
        /\ log' = out.log
    /\ before' = Snapshot
    /\ nreq' = nreq + 1
    /\ UNCHANGED <<objects, fields, migratedDbs>>

BulkDeleteRequest ==
    /\ Idle
    \* the route never queries fields, so that failure is not drawn
    /\ \E n \in RequestNames, ids \in SeqsUpTo(RequestEntryIds, MaxIds),
          run \in {r \in RouteRuns : r.failStmts # {"fields"}} :
            BulkDelete(n, ids, run)

NextBulk ==
    \/ BulkDeleteRequest
    \/ Return

SpecBulk == Init /\ [][NextBulk]_vars

----------------------------------------------------------------------------
(* The whole store: every call, in any order *)

Next ==
    \/ \E n \in ObjectNames, run \in LocatorRuns : FindCall(n, run)
    \/ \E q \in Queries, run \in LocatorRuns : QueryAllCall(q, run)
    \/ \E q \in Queries, run \in LocatorRuns : QueryAllAsyncCall(q, run)
    \/ EnumRenameRequest
    \/ BulkDeleteRequest
    \/ Return

Spec == Init /\ [][Next]_vars

----------------------------------------------------------------------------
(* Locator and aggregate: claims *)

HasObject(f, name) == \E o \in objects[f] : o.name = name

\* The shallowest discovered file holding an object row named name, or NoDb.
ShallowestOwner(name) ==
    LET dbPaths == discoverDuckDBPaths
        owners == {i \in 1..Len(dbPaths) : HasObject(dbPaths[i], name)}
    IN  IF owners = {} THEN NoDb
        ELSE dbPaths[CHOOSE i \in owners : \A j \in owners : i <= j]

\* C1: when every engine invocation succeeds, findDuckDBForObject(name)
\* returns the shallowest discovered file whose objects table has a row with
\* that name, and null when no discovered file has one.
C1_LocatorPriority ==
    (req.op = "findDuckDBForObject" /\ AllSucceed(req.run))
        => resp.result = ShallowestOwner(req.name)

\* The name is in the depth-0 and in a deeper file; the depth-0 file is returned.
C1_Witness ==
    /\ req.op = "findDuckDBForObject"
    /\ AllSucceed(req.run)
    /\ HasObject(1, req.name)
    /\ \E f \in Files : f > 1 /\ HasObject(f, req.name)
    /\ resp.result = 1

\* C2: in every execution, failing or timed-out existence queries included,
\* the file findDuckDBForObject returns is the shallowest discovered file
\* that contains a matching row.
C2_OwnerIsShallowestInEveryRun ==
    (req.op = "findDuckDBForObject" /\ resp.result # NoDb)
        => resp.result = ShallowestOwner(req.name)

\* What file f contributed to an aggregate call: nothing when its invocation
\* failed.
Produced(f) ==
    IF ~req.run.bin \/ f \in req.run.failFiles THEN <<>>
    ELSE TableRows(f, req.query.table)

KeysOf(rows, k) == {rows[i][k] : i \in DOMAIN rows}

\* Position in the priority order of the first file that produced key.
FirstProducer(key, k) ==
    LET dbPaths == discoverDuckDBPaths
    IN  CHOOSE i \in 1..Len(dbPaths) :
            /\ key \in KeysOf(Produced(dbPaths[i]), k)
            /\ \A j \in 1..(i - 1) : key \notin KeysOf(Produced(dbPaths[j]), k)

IsAggregate == req.op \in {"duckdbQueryAll", "duckdbQueryAllAsync"}

\* C3: duckdbQueryAll / duckdbQueryAllAsync with a dedupeKey return, for each
\* key value, exactly one row, taken from the shallowest file that produced
\* that value, and the kept rows follow file priority.
C3_DedupeShallowWins ==
    (IsAggregate /\ req.query.dedupeKey # "") =>
        LET k == req.query.dedupeKey
            rows == resp.rows
            dbPaths == discoverDuckDBPaths
        IN  /\ \A i, j \in DOMAIN rows : i # j => rows[i][k] # rows[j][k]
            /\ KeysOf(rows, k) = UNION {KeysOf(Produced(f), k) : f \in Files}
            /\ \A i \in DOMAIN rows :
                 \E p \in DOMAIN Produced(dbPaths[FirstProducer(rows[i][k], k)]) :
                    Produced(dbPaths[FirstProducer(rows[i][k], k)])[p] = rows[i]
            /\ \A i, j \in DOMAIN rows :
                 i < j => FirstProducer(rows[i][k], k) <= FirstProducer(rows[j][k], k)

\* A deduplicated call in which a key value came from the depth-0 file and
\* from a deeper file.
C3_Witness ==
    /\ IsAggregate
    /\ req.query.dedupeKey # ""
    /\ \E f \in Files : f > 1 /\
          KeysOf(Produced(1), req.query.dedupeKey)
            \cap KeysOf(Produced(f), req.query.dedupeKey) # {}
    /\ resp.rows # <<>>

----------------------------------------------------------------------------
(* Enum rename: claims *)

IsRename == req.op = "enumRename"

\* The route answered a rename that passed every check (not the no-op).
RenameAnswered == IsRename /\ resp.status = 200 /\ "updated" \in DOMAIN resp

WritesSucceeded == \A i \in DOMAIN log : log[i].ok

TablesUntouched ==
    /\ fields = before.fields
    /\ entries = before.entries
    /\ entry_fields = before.entry_fields

\* The rows of the requested field, as a field of the named object, in
\* file f before the call.
TargetFields(f) ==
    {r \in before.fields[f] :
        /\ r.id = req.fieldId
        /\ \E o \in objects[f] : o.name = req.name /\ o.id = r.object_id}

OldTrimmed == TrimEnd(TrimStart(req.oldValue))
NewTrimmed == TrimEnd(TrimStart(req.newValue))

\* C4: a successful enum rename (both writes went through) replaces the old
\* value at its index in enum_values, leaving the length, every other
\* element, enum_colors and every other field row as they were; every
\* entry_fields row of the field that held the trimmed old value holds the
\* trimmed new value, and every other row is unchanged.
C4_RenameInPlace ==
    (RenameAnswered /\ WritesSucceeded) =>
        LET f == req.dbFile IN
        /\ \A g \in Files \ {f} :
              fields[g] = before.fields[g] /\ entry_fields[g] = before.entry_fields[g]
        /\ entries = before.entries
        /\ \E bf \in TargetFields(f), af \in fields[f] :
              /\ fields[f] \ {af} = before.fields[f] \ {bf}
              /\ af.id = bf.id
              /\ af.object_id = bf.object_id
              /\ af.enum_colors = bf.enum_colors
              /\ af.enum_values.kind = "array"
              /\ Len(af.enum_values.items) = Len(bf.enum_values.items)
              /\ \E idx \in DOMAIN bf.enum_values.items :
                    /\ bf.enum_values.items[idx] = OldTrimmed
                    /\ \A j \in 1..(idx - 1) : bf.enum_values.items[j] # OldTrimmed
                    /\ af.enum_values.items[idx] = NewTrimmed
                    /\ \A j \in DOMAIN bf.enum_values.items :
                          j # idx => af.enum_values.items[j] = bf.enum_values.items[j]
        /\ Cardinality(entry_fields[f]) = Cardinality(before.entry_fields[f])
        /\ \A r \in before.entry_fields[f] :
              IF r.field_id = req.fieldId /\ r.value = OldTrimmed
              THEN /\ [r EXCEPT !.value = NewTrimmed] \in entry_fields[f]
                   /\ r \notin entry_fields[f]
              ELSE r \in entry_fields[f]

\* A rename went through and moved at least one entry value; another field's
\* row held the same old value.
C4_Witness ==
    /\ RenameAnswered
    /\ WritesSucceeded
    /\ \E r \in before.entry_fields[req.dbFile] :
          r.field_id = req.fieldId /\ r.value = OldTrimmed
    /\ \E r \in before.entry_fields[req.dbFile] :
          r.field_id # req.fieldId /\ r.value = OldTrimmed

\* C5: an enum rename whose oldValue and newValue are equal after trimming
\* issues no write statement and modifies no row; once the name passed the
\* identifier check, the owner file was located and both values are
\* non-empty, it responds {ok: true, changed: 0}.
C5_NoOpRename ==
    (IsRename /\ OldTrimmed = NewTrimmed) =>
        /\ log = <<>>
        /\ TablesUntouched
        /\ (req.dbFile # NoDb /\ req.oldValue # <<>> /\ req.newValue # <<>>)
              => resp = [status |-> 200, ok |-> TRUE, changed |-> 0]

\* A no-op whose raw strings differ.
C5_Witness ==
    /\ IsRename
    /\ req.oldValue # req.newValue
    /\ OldTrimmed = NewTrimmed
    /\ resp = [status |-> 200, ok |-> TRUE, changed |-> 0]

\* C6: an enum rename whose trimmed newValue is already an element of the
\* field's enum_values leaves enum_values and every entry value unmodified,
\* and, when it is a rename of a different value that the field has and the
\* route's queries were answered, fails with 409.
C6_RenameConflict ==
    (IsRename /\ req.dbFile # NoDb /\
     \E r \in TargetFields(req.dbFile) :
        \E i \in DOMAIN r.enum_values.items : r.enum_values.items[i] = NewTrimmed) =>
        /\ log = <<>>
        /\ TablesUntouched
        /\ ( /\ req.queriesOk
             /\ req.oldValue # <<>>
             /\ req.newValue # <<>>
             /\ OldTrimmed # NewTrimmed
             /\ \E r \in TargetFields(req.dbFile) :
                   \E i \in DOMAIN r.enum_values.items :
                        r.enum_values.items[i] = OldTrimmed )
              => resp.status = 409

\* A rename of a value the field has to another value it has was refused.
C6_Witness ==
    /\ IsRename
    /\ resp.status = 409
    /\ OldTrimmed # NewTrimmed

\* C7: for every pair of non-empty oldValue/newValue strings, an enum rename
\* on an existing object responds 404 and writes nothing when the field id
\* is not a field of the named object or the trimmed oldValue is not an
\* element of the field's enum_values.
C7_NotFoundForEveryPair ==
    ( /\ IsRename
      /\ req.oldValue # <<>>
      /\ req.newValue # <<>>
      /\ req.dbFile # NoDb
      /\ \/ TargetFields(req.dbFile) = {}
         \/ \E r \in TargetFields(req.dbFile) :
                \A i \in DOMAIN r.enum_values.items :
                    r.enum_values.items[i] # OldTrimmed )
        => (resp.status = 404 /\ log = <<>> /\ TablesUntouched)

\* C8: on a successful rename the response's updated value is the number of
\* entry_fields rows whose value was changed from the old to the new value.
C8_UpdatedIsRowCount ==
    RenameAnswered =>
        /\ resp.updated.t = "number"
        /\ resp.updated.v =
              Cardinality(before.entry_fields[req.dbFile] \ entry_fields[req.dbFile])

----------------------------------------------------------------------------
(* Bulk delete: claims *)

IsBulkDelete == req.op = "bulkDelete"

\* Ids of the object the request names, in file f.
NamedObjectIds(f) == {o.id : o \in {x \in objects[f] : x.name = req.name}}

\* C9: a bulk delete for object A removes no entries row whose object_id is
\* not A's id, whatever ids are supplied.
C9_BulkDeleteScoped ==
    IsBulkDelete =>
        \A f \in Files : \A r \in before.entries[f] \ entries[f] :
            /\ f = req.dbFile
            /\ r.object_id \in NamedObjectIds(f)
            /\ r.id \in Range(req.entryIds)

\* The request named an entry of another object of the same file, the delete
\* statement ran, an entry of A went and the foreign entry is still there.
C9_Witness ==
    /\ IsBulkDelete
    /\ resp.status = 200
    /\ log[2].ok
    /\ before.entries[req.dbFile] # entries[req.dbFile]
    /\ \E r \in entries[req.dbFile] :
          r.id \in Range(req.entryIds) /\ r.object_id \notin NamedObjectIds(req.dbFile)

\* C10: deletedCount in a successful bulk-delete response equals the number
\* of entries rows of the named object that the call removed.
C10_DeletedCountIsRowsRemoved ==
    (IsBulkDelete /\ resp.status = 200) =>
        resp.deletedCount =
            Cardinality(before.entries[req.dbFile] \ entries[req.dbFile])

----------------------------------------------------------------------------
(* Path resolver: safeResolvePath, safeResolveNewPath *)

\* A path string is a sequence of characters; Split cuts it at every "/".
Slash == <<"/">>

RECURSIVE Join(_)
Join(segs) ==
    IF Len(segs) = 0 THEN <<>>
    ELSE IF Len(segs) = 1 THEN segs[1]
    ELSE segs[1] \o Slash \o Join(Tail(segs))

RECURSIVE SplitFrom(_, _)
SplitFrom(s, cur) ==
    IF s = <<>> THEN <<cur>>
    ELSE IF Head(s) = "/" THEN <<cur>> \o SplitFrom(Tail(s), <<>>)
    ELSE SplitFrom(Tail(s), Append(cur, Head(s)))

Split(s) == SplitFrom(s, <<>>)

\* String.prototype.startsWith / includes
StartsWith(s, p) == Len(s) >= Len(p) /\ SubSeq(s, 1, Len(p)) = p
IncludesString(s, p) ==
    \E i \in 1..(Len(s) - Len(p) + 1) : SubSeq(s, i, i + Len(p) - 1) = p

DotDot == <<".", ".">>

\* normalizeString of node:path (posix): empty and "." segments are dropped,
\* ".." removes the segment before it, or is kept when nothing is left to
\* remove and the path is relative.
RECURSIVE normalizeString(_, _, _)
normalizeString(segs, allowAboveRoot, res) ==
    IF segs = <<>> THEN res
    ELSE LET seg == Head(segs) IN
         IF seg = <<>> \/ seg = <<".">>
         THEN normalizeString(Tail(segs), allowAboveRoot, res)
         ELSE IF seg = DotDot
         THEN IF res # <<>> /\ res[Len(res)] # DotDot
              THEN normalizeString(Tail(segs), allowAboveRoot,
                                   SubSeq(res, 1, Len(res) - 1))
              ELSE IF allowAboveRoot
              THEN normalizeString(Tail(segs), allowAboveRoot, Append(res, DotDot))
              ELSE normalizeString(Tail(segs), allowAboveRoot, res)
         ELSE normalizeString(Tail(segs), allowAboveRoot, Append(res, seg))

\* path.normalize
normalize(path) ==
    IF Len(path) = 0 THEN <<".">>
    ELSE LET isAbsolute == path[1] = "/"
             trailingSeparator == path[Len(path)] = "/"
             p == Join(normalizeString(Split(path), ~isAbsolute, <<>>))
         IN  IF Len(p) = 0
             THEN (IF isAbsolute THEN Slash
                   ELSE IF trailingSeparator THEN <<".", "/">> ELSE <<".">>)
             ELSE (IF isAbsolute THEN Slash ELSE <<>>) \o p
                    \o (IF trailingSeparator THEN Slash ELSE <<>>)

\* path.resolve(root, p) and path.resolve(root) for an absolute root: the
\* rightmost absolute argument starts the result.
resolve(root, p) ==
    IF Len(p) > 0 /\ p[1] = "/"
    THEN Slash \o Join(normalizeString(Split(p), FALSE, <<>>))
    ELSE Slash \o Join(normalizeString(Split(root \o Slash \o p), FALSE, <<>>))

\* The workspace root.  "/we" is a sibling directory whose name starts with
\* the root's name.
WsRoot == <<"/", "w">>

\* Segments of the requested paths.
PathSegments ==
    { <<>>, <<".">>, DotDot, <<"a">>, <<".", ".", "a">>, <<"w">>, <<"w", "e">> }
MaxSegments == 4
RequestPaths == {Join(segs) : segs \in SeqsUpTo(PathSegments, MaxSegments) \ {<<>>}}

\* What exists on disk: whether a workspace root was found, and which of
\* these paths exist besides it.
DiskPaths == { WsRoot \o <<"/", "a">>, WsRoot \o <<"/", ".", ".", "a">>, WsRoot \o <<"e">> }
Disks ==
    {[root |-> FALSE, paths |-> {}]} \cup [root : {TRUE}, paths : SUBSET DiskPaths]

resolveWorkspaceRoot(disk) == disk.root
existsSync(disk, path) == path = WsRoot \/ path \in disk.paths

\* A string where null is possible.
JsonString(s) == [kind |-> "string", items |-> s]

safeResolvePath(relativePath, disk) ==
    IF ~resolveWorkspaceRoot(disk) THEN JsonNull
    ELSE LET normalized == normalize(relativePath) IN
    IF StartsWith(normalized, DotDot) \/ IncludesString(normalized, <<"/", ".", ".", "/">>)
    THEN JsonNull
    ELSE LET absolute == resolve(WsRoot, normalized) IN
    IF ~StartsWith(absolute, resolve(WsRoot, <<>>)) THEN JsonNull
    ELSE IF ~existsSync(disk, absolute) THEN JsonNull
    ELSE JsonString(absolute)

safeResolveNewPath(relativePath, disk) ==
    IF ~resolveWorkspaceRoot(disk) THEN JsonNull
    ELSE LET normalized == normalize(relativePath) IN
    IF StartsWith(normalized, DotDot) \/ IncludesString(normalized, <<"/", ".", ".", "/">>)
    THEN JsonNull
    ELSE LET absolute == resolve(WsRoot, normalized) IN
    IF ~StartsWith(absolute, resolve(WsRoot, <<>>)) THEN JsonNull
    ELSE JsonString(absolute)

SafeResolveCall(relativePath, disk) ==
    /\ req' = [op |-> "safeResolvePath", path |-> relativePath, disk |-> disk]
    /\ resp' = [status |-> 0, result |-> safeResolvePath(relativePath, disk)]
    /\ UNCHANGED <<db, log, before, nreq, migratedDbs>>

SafeResolveNewCall(relativePath, disk) ==
    /\ req' = [op |-> "safeResolveNewPath", path |-> relativePath, disk |-> disk]
    /\ resp' = [status |-> 0, result |-> safeResolveNewPath(relativePath, disk)]
    /\ UNCHANGED <<db, log, before, nreq, migratedDbs>>

\* One workspace layout is enough for the functions that never open a
\* database.
InitEmpty ==
    /\ Init
    /\ \A f \in Files : objects[f] = {}

NextPath ==
    \/ /\ req = NoReq
       /\ \E p \in RequestPaths, disk \in Disks : SafeResolveCall(p, disk)
    \/ /\ req = NoReq
       /\ \E p \in RequestPaths, root \in BOOLEAN :
            SafeResolveNewCall(p, [root |-> root, paths |-> {}])
    \/ Return

SpecPath == InitEmpty /\ [][NextPath]_vars

----------------------------------------------------------------------------
(* Path resolver: claims *)

IsPathCall == req.op \in {"safeResolvePath", "safeResolveNewPath"}

\* The location a path denotes, as the segments below "/", ".." never
\* climbing above "/".
Location(path) == normalizeString(Split(path), FALSE, <<>>)

\* The path is the root directory or lies below it.
InsideRoot(path) ==
    LET loc == Location(path)
        rootLoc == Location(WsRoot)
    IN  Len(loc) >= Len(rootLoc) /\ SubSeq(loc, 1, Len(rootLoc)) = rootLoc

\* C11: every non-null result of safeResolvePath or safeResolveNewPath is
\* the workspace root itself or a path inside the workspace root directory.
C11_ResultInsideRoot ==
    (IsPathCall /\ resp.result.kind = "string") => InsideRoot(resp.result.items)

\* The path is relative and its normal form climbs above the directory it is
\* resolved against: it begins with a ".." segment.
EscapesRoot(path) ==
    /\ ~StartsWith(path, Slash)
    /\ LET n == normalizeString(Split(path), TRUE, <<>>)
       IN  n # <<>> /\ n[1] = DotDot

\* C12: safeResolvePath returns null for every relative path whose
\* normalization escapes the root, and for every workspace-relative path
\* that names an existing file under the root it returns the root joined
\* with that path.
C12_RejectsEscapesResolvesExisting ==
    (req.op = "safeResolvePath" /\ req.disk.root /\ ~StartsWith(req.path, Slash)) =>
        LET target == WsRoot \o Slash \o req.path
            joined == Slash \o Join(Location(target))
        IN  /\ EscapesRoot(req.path) => resp.result = JsonNull
            /\ (~EscapesRoot(req.path) /\ existsSync(req.disk, joined))
                  => resp.result = JsonString(joined)

----------------------------------------------------------------------------
(* EAV pivot: pivotEavRows *)

\* Rows of the raw query: the join gives every row of an entry the entry's
\* timestamps.  field_name "" is falsy; value is a string or null.
EavRow(id, created, updated, fieldName, value) ==
    [ entry_id |-> id,
      created_at |-> JsonString(created),
      updated_at |-> JsonString(updated),
      field_name |-> fieldName,
      value |-> value ]

EavRows ==
    { EavRow(id, <<"c">> \o id, <<"u">> \o id, n, v) :
                         id \in {<<"e1">>, <<"e2">>},
                         n \in {"name", "age", "", "created_at"},
                         v \in {JsonString(<<"x">>), JsonNull} }
MaxRows == 3

\* A record seeded with a null-valued key for a field.
SeedEntryWithAge(row) ==
    [ k \in {"entry_id", "created_at", "updated_at", "age"} |->
        IF k = "entry_id" THEN JsonString(row.entry_id)
        ELSE IF k = "age" THEN JsonNull
        ELSE row[k] ]

\* entry = {entry_id, created_at, updated_at}
SeedEntry(row) ==
    [ k \in {"entry_id", "created_at", "updated_at"} |->
        IF k = "entry_id" THEN JsonString(row.entry_id) ELSE row[k] ]

\* entry[key] = value
SetKey(entry, key, value) ==
    [ k \in DOMAIN entry \cup {key} |-> IF k = key THEN value ELSE entry[k] ]

\* The loop over the rows; grouped is the Map in insertion order.
RECURSIVE PivotFrom(_, _)
PivotFrom(rows, grouped) ==
    IF rows = <<>> THEN grouped
    ELSE LET row == Head(rows)
             at == IndexOf([i \in DOMAIN grouped |-> grouped[i].key], row.entry_id)
             g == IF at = 0
                  THEN Append(grouped, [key |-> row.entry_id, entry |-> SeedEntry(row)])
                  ELSE grouped
             pos == IF at = 0 THEN Len(g) ELSE at
         IN  PivotFrom(Tail(rows),
                IF row.field_name # ""
                THEN [g EXCEPT ![pos].entry = SetKey(@, row.field_name, row.value)]
                ELSE g)

\* Array.from(grouped.values())
pivotEavRows(rows) ==
    LET grouped == PivotFrom(rows, <<>>)
    IN  [i \in DOMAIN grouped |-> grouped[i].entry]

PivotCall(rows) ==
    /\ req' = [op |-> "pivotEavRows", rows |-> rows]
    /\ resp' = [status |-> 0, records |-> pivotEavRows(rows)]
    /\ UNCHANGED <<db, log, before, nreq, migratedDbs>>

NextPivot ==
    \/ /\ req = NoReq
       /\ \E rows \in SeqsUpTo(EavRows, MaxRows) : PivotCall(rows)
    \/ Return

SpecPivot == InitEmpty /\ [][NextPivot]_vars

----------------------------------------------------------------------------
(* EAV pivot: claims *)

\* Index of the first input row of each entry id, ascending.
FirstRows(rows) ==
    {i \in DOMAIN rows : \A j \in 1..(i - 1) : rows[j].entry_id # rows[i].entry_id}

\* The i-th smallest element of a set of numbers.
Nth(S, i) == CHOOSE x \in S : Cardinality({y \in S : y < x}) = i - 1

\* Non-empty field names with a row for the entry of row number first.
FieldNamesOf(rows, first) ==
    {rows[j].field_name : j \in {k \in DOMAIN rows :
        rows[k].entry_id = rows[first].entry_id /\ rows[k].field_name # ""}}

\* C13: pivotEavRows produces exactly one record per distinct entry_id of
\* the input, in the order of each entry's first row; the record has the
\* keys entry_id, created_at, updated_at, seeded from that row, and one key
\* per (non-empty) field name that has a row for the entry, holding the value
\* of the last such row, and no other key.
C13_PivotOneRecordPerEntry ==
    req.op = "pivotEavRows" =>
        LET rows == req.rows
            recs == resp.records
            firsts == FirstRows(rows)
        IN  /\ Len(recs) = Cardinality(firsts)
            /\ \A i \in DOMAIN recs :
                LET first == Nth(firsts, i)
                    names == FieldNamesOf(rows, first)
                IN  /\ DOMAIN recs[i] =
                          {"entry_id", "created_at", "updated_at"} \cup names
                    /\ "entry_id" \notin names
                          => recs[i].entry_id = JsonString(rows[first].entry_id)
                    /\ "created_at" \notin names
                          => recs[i].created_at = rows[first].created_at
                    /\ "updated_at" \notin names
                          => recs[i].updated_at = rows[first].updated_at
                    /\ \A n \in names :
                          \E j \in DOMAIN rows :
                            /\ rows[j].entry_id = rows[first].entry_id
                            /\ rows[j].field_name = n
                            /\ rows[j].value = recs[i][n]
                            /\ \A k \in (j + 1)..Len(rows) :
                                  ~(rows[k].entry_id = rows[first].entry_id
                                    /\ rows[k].field_name = n)

\* The spec's example: e1 has name and age, e2 name only, rows interleaved;
\* two records, the second without the key age.
C13_Witness ==
    /\ req.op = "pivotEavRows"
    /\ Len(req.rows) = 3
    /\ req.rows[1].entry_id = <<"e1">> /\ req.rows[1].field_name = "name"
    /\ req.rows[2].entry_id = <<"e2">> /\ req.rows[2].field_name = "name"
    /\ req.rows[3].entry_id = <<"e1">> /\ req.rows[3].field_name = "age"
    /\ Len(resp.records) = 2
    /\ "age" \in DOMAIN resp.records[1]
    /\ "age" \notin DOMAIN resp.records[2]

----------------------------------------------------------------------------
(* A workspace with relations: Task.project -> Proj *)

\* Stored values of the relation field project of entry e1: a bare id, a
\* padded id, a JSON array of ids, a text that starts like an array and is
\* not one, the empty string, the id of no entry.
RelValues ==
    { <<"e3">>, <<" ", "e4">>, <<"[", "\"e3\"", ",", "\"e4\"", "]">>,
      <<"[", "\"e3\"">>, <<>>, <<"e7">> }
NoRow == <<"-">>            \* e1 has no row for the field

\* Proj (o2) lives in the root file; Task lives in any subset of the files,
\* as o1 in the root file and as o3 below it.
TaskId(f) == IF f = 1 THEN "o1" ELSE "o3"

\* The tables of file f, with every column the detail and entry routes
\* read ("" is an unset display_field / related_object_id).  Task has the
\* fields status (enum), project (relation to Proj) and name; Proj has
\* title.  e1 has a status, a name and possibly a project; e2 only a
\* project; e3 a title; e4 nothing.
Store(f, hasTask, rel) ==
    LET object(id, name) == [id |-> id, name |-> name, display_field |-> ""]
        field(id, oid, name, type, related, sort_order, ev, ec) ==
            [ id |-> id, object_id |-> oid, name |-> name, type |-> type,
              related_object_id |-> related, sort_order |-> sort_order,
              enum_values |-> ev, enum_colors |-> ec ]
        entry(id, oid, at) ==
            [id |-> id, object_id |-> oid, created_at |-> at, updated_at |-> at]
        proj == f = 1
        t == TaskId(f)
    IN  [ objects |->
            (IF proj THEN {object("o2", Proj)} ELSE {})
                \cup (IF hasTask THEN {object(t, Task)} ELSE {}),
          fields |->
            (IF proj
             THEN {field("f2", "o2", "title", "text", "", 1, JsonNull, JsonNull)}
             ELSE {})
            \cup (IF hasTask
                  THEN { field("f1", t, "status", "enum", "", 1,
                               JsonArray(<<ValA, ValB>>), JsonArray(<<"#1", "#2">>)),
                         field("f3", t, "project", "relation", "o2", 2,
                               JsonNull, JsonNull),
                         field("f4", t, "name", "text", "", 3, JsonNull, JsonNull) }
                  ELSE {}),
          entries |->
            (IF proj THEN {entry("e3", "o2", 3), entry("e4", "o2", 4)} ELSE {})
                \cup (IF hasTask THEN {entry("e1", t, 1), entry("e2", t, 2)} ELSE {}),
          entry_fields |->
            (IF proj THEN {EntryFieldRow("e3", "f2", ValB)} ELSE {})
                \cup (IF hasTask
                      THEN { EntryFieldRow("e1", "f1", ValA),
                             EntryFieldRow("e1", "f4", ValA),
                             EntryFieldRow("e2", "f3", <<"e3">>) }
                           \cup (IF rel = NoRow THEN {}
                                 ELSE {EntryFieldRow("e1", "f3", rel)})
                      ELSE {}) ]

InitStore ==
    /\ \E tasks \in SUBSET Files, rel \in [Files -> RelValues \cup {NoRow}] :
        /\ \A f \in Files \ tasks : rel[f] = NoRow
        /\ objects = [f \in Files |-> Store(f, f \in tasks, rel[f]).objects]
        /\ fields = [f \in Files |-> Store(f, f \in tasks, rel[f]).fields]
        /\ entries = [f \in Files |-> Store(f, f \in tasks, rel[f]).entries]
        /\ entry_fields = [f \in Files |-> Store(f, f \in tasks, rel[f]).entry_fields]
    /\ req = NoReq
    /\ resp = NoResp
    /\ log = <<>>
    /\ before = <<>>
    /\ nreq = 0
    /\ migratedDbs = {}

----------------------------------------------------------------------------
(* GET /api/workspace/objects/[name] *)

\* A set of rows as the sequence ORDER BY col gives.
RECURSIVE OrderBy(_, _)
OrderBy(S, col) ==
    IF S = {} THEN <<>>
    ELSE LET r == CHOOSE x \in S : \A y \in S : x[col] <= y[col]
         IN  <<r>> \o OrderBy(S \ {r}, col)

Reverse(s) == [i \in DOMAIN s |-> s[Len(s) + 1 - i]]

\* JSON.parse(text) when it yields an array of strings: a "[", quoted
\* strings separated by ",", a "]"; white space between tokens is skipped.
JsonParseArray(text) ==
    LET Unquote == ("\"e3\"" :> "e3") @@ ("\"e4\"" :> "e4")
        toks == SelectSeq(text, LAMBDA c : c # " ")
        n == Len(toks)
        inner == SubSeq(toks, 2, n - 1)
        wellFormed ==
            /\ n >= 2 /\ toks[1] = "[" /\ toks[n] = "]"
            /\ (Len(inner) = 0 \/ Len(inner) % 2 = 1)
            /\ \A i \in DOMAIN inner :
                  IF i % 2 = 1 THEN inner[i] \in DOMAIN Unquote ELSE inner[i] = ","
    IN  [ ok |-> wellFormed,
          items |-> IF wellFormed
                    THEN [k \in 1..((Len(inner) + 1) \div 2) |-> <<Unquote[inner[2 * k - 1]]>>]
                    ELSE <<>> ]

\* A parser that knows bare ids only.
parseRelationValueBare(value) ==
    IF trim(value) = <<>> THEN <<>> ELSE <<trim(value)>>

\* parseRelationValue: the ids a stored relation value names.
parseRelationValue(value) ==
    IF value = <<>> THEN <<>>
    ELSE LET trimmed == trim(value) IN
    IF trimmed = <<>> THEN <<>>
    ELSE IF Head(trimmed) = "[" /\ JsonParseArray(trimmed).ok
    THEN SelectSeq(JsonParseArray(trimmed).items, LAMBDA id : id # <<>>)
    ELSE <<trimmed>>

\* The maximal runs of word characters of a field name, in lower case: what
\* /\bname\b/i and /\btitle\b/i look at.  Other names are one lower-case word.
Words(name) ==
    CASE name = "Full Name" -> <<"full", "name">>
      [] name = "TITLE" -> <<"title">>
      [] name = "job-title" -> <<"job", "title">>
      [] OTHER -> <<name>>

\* A resolver that prefers the first text field to a name or title field.
resolveDisplayFieldTextFirst(obj, objFields) ==
    LET textField == {i \in DOMAIN objFields : objFields[i].type = "text"}
        first(S) == CHOOSE i \in S : \A j \in S : i <= j
    IN  IF obj.display_field # "" THEN obj.display_field
        ELSE IF textField # {} THEN objFields[first(textField)].name
        ELSE IF Len(objFields) > 0 THEN objFields[1].name
        ELSE "id"

\* resolveDisplayField: the configured field, else the first field whose
\* name has the word name or title, else the first text field, else the
\* first field, else "id".
resolveDisplayField(obj, objFields) ==
    LET nameField == {i \in DOMAIN objFields :
                        \E k \in DOMAIN Words(objFields[i].name) :
                            Words(objFields[i].name)[k] \in {"name", "title"}}
        textField == {i \in DOMAIN objFields : objFields[i].type = "text"}
        first(S) == CHOOSE i \in S : \A j \in S : i <= j
    IN  IF obj.display_field # "" THEN obj.display_field
        ELSE IF nameField # {} THEN objFields[first(nameField)].name
        ELSE IF textField # {} THEN objFields[first(textField)].name
        ELSE IF Len(objFields) > 0 THEN objFields[1].name
        ELSE "id"

\* SELECT * FROM fields WHERE object_id = '<id>' ORDER BY sort_order
SelectFields(f, objectId) == OrderBy({r \in fields[f] : r.object_id = objectId}, "sort_order")

\* The raw query with LEFT JOINs: an entry without values gives one row
\* with a null field name and value.
SelectEavRowsLeftJoin(f, objectId) ==
    LET ents == Reverse(OrderBy({e \in entries[f] : e.object_id = objectId}, "created_at"))
        joined(e) ==
            LET rows == { EavRow(<<e.id>>, <<ToString(e.created_at)>>,
                                 <<ToString(e.updated_at)>>, p[2].name,
                                 JsonString(p[1].value)) :
                          p \in {x \in entry_fields[f] \X fields[f] :
                                  x[1].entry_id = e.id /\ x[2].id = x[1].field_id} }
            IN  IF rows = {}
                THEN <<EavRow(<<e.id>>, <<ToString(e.created_at)>>,
                              <<ToString(e.updated_at)>>, "", JsonNull)>>
                ELSE SeqOf(rows)
        flat[i \in 0..Len(ents)] == IF i = 0 THEN <<>> ELSE flat[i - 1] \o joined(ents[i])
    IN  flat[Len(ents)]

\* SELECT ... FROM entries e JOIN entry_fields ef JOIN fields f
\*   WHERE e.object_id = '<id>' ORDER BY e.created_at DESC
SelectEavRows(f, objectId) ==
    LET ents == Reverse(OrderBy({e \in entries[f] : e.object_id = objectId}, "created_at"))
        joined(e) ==
            SeqOf({ EavRow(<<e.id>>, <<ToString(e.created_at)>>,
                           <<ToString(e.updated_at)>>, p[2].name, JsonString(p[1].value)) :
                    p \in {x \in entry_fields[f] \X fields[f] :
                            x[1].entry_id = e.id /\ x[2].id = x[1].field_id} })
        flat[i \in 0..Len(ents)] == IF i = 0 THEN <<>> ELSE flat[i - 1] \o joined(ents[i])
    IN  flat[Len(ents)]

\* SELECT * FROM v_<name> ORDER BY created_at DESC: the wide view, where it
\* exists, has one row per entry of the object and one column per field.
SelectView(f, objectId) ==
    LET ents == Reverse(OrderBy({e \in entries[f] : e.object_id = objectId}, "created_at"))
        names == {fl.name : fl \in {x \in fields[f] : x.object_id = objectId}}
        cell(e, n) ==
            LET hits == {ef \in entry_fields[f] :
                            /\ ef.entry_id = e.id
                            /\ \E fl \in fields[f] :
                                 fl.id = ef.field_id /\ fl.name = n
                                    /\ fl.object_id = objectId}
            IN  IF hits = {} THEN JsonNull ELSE JsonString((CHOOSE h \in hits : TRUE).value)
    IN  [ i \in DOMAIN ents |->
            [ k \in {"entry_id", "created_at", "updated_at"} \cup names |->
                IF k = "entry_id" THEN JsonString(<<ents[i].id>>)
                ELSE IF k = "created_at" THEN JsonString(<<ToString(ents[i].created_at)>>)
                ELSE IF k = "updated_at" THEN JsonString(<<ToString(ents[i].updated_at)>>)
                ELSE cell(ents[i], k) ] ]

\* The display value rows of the entries ids of object objectId in file f:
\* SELECT entry id, ef.value ... WHERE id IN (<ids>) AND f.object_id = ...
\*   AND f.name = '<displayFieldName>'
SelectDisplayRows(f, ids, objectId, displayFieldName) ==
    { ef \in entry_fields[f] :
        /\ \E id \in ids : Interpolated(id) = <<ef.entry_id>>
        /\ \E fl \in fields[f] :
              /\ fl.id = ef.field_id
              /\ fl.object_id = objectId
              /\ fl.name = displayFieldName }

\* labelMap / displayMap: id -> row.value || row.entry_id, over the ids.
DisplayMap(rows, ids) ==
    [ id \in ids |->
        LET hits == {r \in rows : <<r.entry_id>> = id /\ r.value # <<>>}
        IN  IF hits = {} THEN id ELSE (CHOOSE r \in hits : TRUE).value ]

\* resolveRelationLabels: every query goes to the file of the object.
resolveRelationLabels(dbFile, flds, ents, run) ==
    LET relationFields ==
            {i \in DOMAIN flds :
                flds[i].type = "relation" /\ flds[i].related_object_id # ""}
        relatedObjs(rf) ==
            duckdbQueryOnFile(run, "related",
                SeqOf({o \in objects[dbFile] : o.id = rf.related_object_id}))
        resolved == {i \in relationFields : Len(relatedObjs(flds[i])) > 0}
        entryIds(rf) ==
            UNION { Range(parseRelationValue(ents[k][rf.name].items)) :
                    k \in {j \in DOMAIN ents :
                            /\ rf.name \in DOMAIN ents[j]
                            /\ ents[j][rf.name].kind = "string"
                            /\ ents[j][rf.name].items # <<>>} }
        labelMap(rf) ==
            LET relObj == relatedObjs(rf)[1]
                relFields == duckdbQueryOnFile(run, "relatedFields",
                                               SelectFields(dbFile, relObj.id))
                displayFieldName == resolveDisplayField(relObj, relFields)
                displayRows ==
                    duckdbQueryOnFile(run, "labels",
                        SeqOf(SelectDisplayRows(dbFile, entryIds(rf), relObj.id,
                                                displayFieldName)))
            IN  DisplayMap(Range(displayRows), entryIds(rf))
    IN  [ n \in {flds[i].name : i \in resolved} |->
            labelMap(flds[CHOOSE i \in resolved :
                        /\ flds[i].name = n
                        /\ \A j \in resolved : flds[j].name = n => j <= i]) ]

\* One element of entriesMap[targetId] per occurrence of targetId in the
\* parsed value of each referencing row, in row order.
RECURSIVE BackLinks(_, _, _)
BackLinks(refRows, targetId, displayMap) ==
    IF refRows = <<>> THEN <<>>
    ELSE LET row == Head(refRows)
             n == Len(SelectSeq(parseRelationValue(row.value),
                                LAMBDA id : id = targetId))
         IN  [i \in 1..n |-> [id |-> row.entry_id, label |-> displayMap[<<row.entry_id>>]]]
                \o BackLinks(Tail(refRows), targetId, displayMap)

\* The body of the loop over reverseFields: no item, or one.
ReverseItem(dbFile, rrf, run) ==
    LET sourceObjs == duckdbQueryOnFile(run, "source",
                        SeqOf({o \in objects[dbFile] : o.id = rrf.object_id}))
        sourceFields == duckdbQueryOnFile(run, "sourceFields",
                                          SelectFields(dbFile, rrf.object_id))
        refRows == duckdbQueryOnFile(run, "refs",
                        SeqOf({ef \in entry_fields[dbFile] :
                                ef.field_id = rrf.id /\ ef.value # <<>>}))
    IN  IF Len(sourceObjs) = 0 \/ Len(refRows) = 0 THEN <<>>
        ELSE
        LET displayFieldName == resolveDisplayField(sourceObjs[1], sourceFields)
            sourceEntryIds == {<<refRows[i].entry_id>> : i \in DOMAIN refRows}
            displayRows ==
                duckdbQueryOnFile(run, "sourceLabels",
                    SeqOf(SelectDisplayRows(dbFile, sourceEntryIds, rrf.object_id,
                                            displayFieldName)))
            displayMap == DisplayMap(Range(displayRows), sourceEntryIds)
            targets == UNION {Range(parseRelationValue(refRows[i].value)) :
                                i \in DOMAIN refRows}
        IN  << [ fieldName |-> rrf.name,
                 sourceObjectName |->
                    (CHOOSE o \in objects[dbFile] : o.id = rrf.object_id).name,
                 sourceObjectId |-> rrf.object_id,
                 displayField |-> displayFieldName,
                 entries |-> [t \in targets |-> BackLinks(refRows, t, displayMap)] ] >>

\* findReverseRelations: every discovered file is scanned for relation
\* fields that point at objectId.
findReverseRelations(objectId, run) ==
    LET dbPaths == discoverDuckDBPaths
        reverseFields(f) ==
            duckdbQueryOnFile(run, "reverse",
                SeqOf({fl \in fields[f] :
                        /\ fl.type = "relation"
                        /\ fl.related_object_id = objectId
                        /\ \E o \in objects[f] : o.id = fl.object_id}))
        items(f) ==
            LET rf == reverseFields(f)
                acc[i \in 0..Len(rf)] ==
                    IF i = 0 THEN <<>> ELSE acc[i - 1] \o ReverseItem(f, rf[i], run)
            IN  acc[Len(rf)]
        all[i \in 0..Len(dbPaths)] ==
            IF i = 0 THEN <<>> ELSE all[i - 1] \o items(dbPaths[i])
    IN  all[Len(dbPaths)]

\* /^[a-zA-Z_][a-zA-Z0-9_-]*$/
IsDetailIdentifier(name) ==
    /\ name # <<>>
    /\ name[1] \in IdStart
    /\ \A i \in 2..Len(name) : name[i] \in IdPart \cup {"-"}

\* A migration that marks a file only when its ALTER succeeded.
ensureDisplayFieldColumnOnSuccess(dbFile, run) ==
    IF dbFile \in migratedDbs \/ ~resolveDuckdbBin(run)
    THEN [log |-> <<>>, migrated |-> migratedDbs]
    ELSE [ log |-> <<[stmt |-> "ALTER TABLE objects", ok |-> "alter" \notin run.failStmts]>>,
           migrated |-> IF "alter" \notin run.failStmts
                        THEN migratedDbs \cup {dbFile} ELSE migratedDbs ]

\* ensureDisplayFieldColumn(dbFile): nothing for a file in migratedDbs or
\* without a binary; otherwise one ALTER TABLE invocation, whose failure is
\* caught, and the file is added to migratedDbs.
ensureDisplayFieldColumn(dbFile, run) ==
    IF dbFile \in migratedDbs \/ ~resolveDuckdbBin(run)
    THEN [log |-> <<>>, migrated |-> migratedDbs]
    ELSE [ log |-> <<[stmt |-> "ALTER TABLE objects", ok |-> "alter" \notin run.failStmts]>>,
           migrated |-> migratedDbs \cup {dbFile} ]

\* The handler returned before the migration.
Unmigrated == [log |-> <<>>, migrated |-> migratedDbs]

\* The handler's outcome: the response, the statements it issued, the
\* migration it ran and the files marked as migrated.
Answered(response, dbFile, issued, alter) ==
    [ resp |-> response, dbFile |-> dbFile, issued |-> issued,
      log |-> alter.log, migrated |-> alter.migrated ]

GET(name, run) ==
    IF ~resolveDuckdbBin(run)
    THEN Answered([status |-> 503, error |-> "DuckDB CLI is not installed"],
                  NoDb, <<>>, Unmigrated)
    ELSE IF ~IsDetailIdentifier(name)
    THEN Answered(ErrorResponse(400, "Invalid object name"), NoDb, <<>>, Unmigrated)
    ELSE
    LET dbFile == findDuckDBForObject(name, run)
        found == FindIssued(name, run)
    IN
    IF dbFile = NoDb
    THEN Answered(ErrorResponse(404, "Object not found"), NoDb, found, Unmigrated)
    ELSE
    LET alter == ensureDisplayFieldColumn(dbFile, run)
        objs == duckdbQueryOnFile(run, "objects", SelectObjectByName(dbFile, name))
        q1 == Append(found, Stmt("SELECT * FROM objects WHERE name", dbFile))
    IN
    IF Len(objs) = 0
    THEN Answered(ErrorResponse(404, "Object not found"), dbFile, q1, alter)
    ELSE
    LET obj == objs[1]
        flds == duckdbQueryOnFile(run, "fields", SelectFields(dbFile, obj.id))
        pivotEntries ==
            IF run.view
            THEN duckdbQueryOnFile(run, "view", SelectView(dbFile, obj.id))
            ELSE <<>>
        rawRows == duckdbQueryOnFile(run, "raw", SelectEavRows(dbFile, obj.id))
        ents == IF Len(pivotEntries) > 0 THEN pivotEntries ELSE pivotEavRows(rawRows)
        q2 == q1 \o << Stmt("SELECT * FROM fields WHERE object_id", dbFile),
                       Stmt("SELECT * FROM statuses WHERE object_id", dbFile),
                       Stmt("SELECT * FROM v_<name>", dbFile) >>
                 \o (IF Len(pivotEntries) > 0 THEN <<>>
                     ELSE <<Stmt("SELECT FROM entries JOIN entry_fields", dbFile)>>)
    IN  Answered([ status |-> 200,
                   object |-> obj,
                   entries |-> ents,
                   relationLabels |-> resolveRelationLabels(dbFile, flds, ents, run),
                   reverseRelations |-> findReverseRelations(obj.id, run),
                   effectiveDisplayField |-> resolveDisplayField(obj, flds) ],
                 dbFile, q2, alter)

\* Names a detail request can carry: the mutation routes' names and one
\* with a quote.
DetailNames == RequestNames \cup {<<"T", "'">>}

\* The engine for a detail request; view says whether the wide view of the
\* object exists in its file.
DetailRuns ==
    {[bin |-> FALSE, failFiles |-> {}, failStmts |-> {}, view |-> FALSE]}
    \cup { [bin |-> TRUE, failFiles |-> 1..k, failStmts |-> fs, view |-> v] :
            k \in 0..NumFiles,
            fs \in {{}, {"objects"}, {"labels"}, {"reverse"}, {"alter"}},
            v \in BOOLEAN }

\* The route answers one detail request.
Detail(name, run) ==
    /\ req = NoReq
    /\ LET out == GET(name, run) IN
        /\ req' = [op |-> "detail", name |-> name, run |-> run,
                   dbFile |-> out.dbFile, bin |-> run.bin, issued |-> out.issued,
                   migrated |-> migratedDbs]
        /\ resp' = out.resp
        /\ log' = out.log
        /\ migratedDbs' = out.migrated
    /\ before' = Snapshot
    /\ nreq' = nreq + 1
    /\ UNCHANGED db

DetailRequest ==
    /\ Idle
    /\ \E n \in DetailNames, run \in DetailRuns : Detail(n, run)

NextDetail ==
    \/ DetailRequest
    \/ Return

SpecDetail == InitStore /\ [][NextDetail]_vars

----------------------------------------------------------------------------
(* Object detail: claims *)

IsDetail == req.op = "detail"

\* The ids a stored value references: the elements of a JSON array of ids,
\* or the one id of a bare (possibly padded) id.
References(value) ==
    LET v == TrimEnd(TrimStart(value)) IN
    IF JsonParseArray(v).ok THEN JsonParseArray(v).items
    ELSE IF Len(v) = 1 THEN <<v>>
    ELSE <<>>

Occurrences(seq, x) == Cardinality({i \in DOMAIN seq : seq[i] = x})

\* C14: when every engine invocation succeeds, for every relation field of
\* a source object S, in any discovered file, that points at the requested
\* object, and every source entry whose value for the field references a
\* target id p, reverseRelations has an item for that field and source
\* object whose entries[p] holds the source entry once per reference; no
\* label is empty.
C14_ReverseRelationsComplete ==
    (IsDetail /\ resp.status = 200 /\ AllSucceed(req.run)) =>
        \A g \in Files : \A fr \in fields[g] : \A S \in objects[g] :
        \A row \in entry_fields[g] :
            ( /\ fr.type = "relation"
              /\ fr.related_object_id = resp.object.id
              /\ S.id = fr.object_id
              /\ row.field_id = fr.id ) =>
                \A p \in Range(References(row.value)) :
                    \E k \in DOMAIN resp.reverseRelations :
                        LET item == resp.reverseRelations[k] IN
                        /\ item.fieldName = fr.name
                        /\ item.sourceObjectName = S.name
                        /\ item.sourceObjectId = S.id
                        /\ p \in DOMAIN item.entries
                        /\ Cardinality({i \in DOMAIN item.entries[p] :
                                            item.entries[p][i].id = row.entry_id})
                              = Occurrences(References(row.value), p)
                        /\ \A i \in DOMAIN item.entries[p] :
                              item.entries[p][i].label # <<>>

\* The requested object lives in the root file and the referencing field in
\* a deeper file only; two source entries reference the same target, one of
\* them inside a JSON array, and both are listed under it.
C14_Witness ==
    /\ IsDetail
    /\ resp.status = 200
    /\ AllSucceed(req.run)
    /\ req.dbFile = 1
    /\ \A o \in objects[1] : o.name # Task
    /\ \E row \in entry_fields[NumFiles] :
          row.field_id = "f3" /\ Len(row.value) > 1 /\ JsonParseArray(row.value).ok
    /\ \E k \in DOMAIN resp.reverseRelations :
          /\ resp.reverseRelations[k].sourceObjectId = TaskId(NumFiles)
          /\ <<"e3">> \in DOMAIN resp.reverseRelations[k].entries
          /\ Len(resp.reverseRelations[k].entries[<<"e3">>]) = 2

\* The label the claim gives id for a relation to object objectId: the
\* display-field value of the entry with that id, in whichever file holds
\* the object, and the id itself when there is none.
ExpectedLabel(objectId, id) ==
    LET hits == { ef \in UNION {entry_fields[g] : g \in Files} :
                    \E g \in Files : \E o \in objects[g] : \E fl \in fields[g] :
                        /\ ef \in entry_fields[g]
                        /\ o.id = objectId
                        /\ fl.object_id = o.id
                        /\ fl.name = resolveDisplayField(o, SelectFields(g, o.id))
                        /\ ef.field_id = fl.id
                        /\ <<ef.entry_id>> = id
                        /\ ef.value # <<>> }
    IN  IF hits = {} THEN id ELSE (CHOOSE ef \in hits : TRUE).value

\* C15: for every relation field of the requested object and every id that
\* a returned entry references in it, relationLabels[field][id] is defined
\* and is the related entry's display value, or the id when it has none,
\* whichever discovered file holds the related object.
C15_RelationLabelsDefined ==
    (IsDetail /\ resp.status = 200 /\ AllSucceed(req.run)) =>
        \A fr \in fields[req.dbFile] :
            (fr.object_id = resp.object.id /\ fr.type = "relation") =>
                \A i \in DOMAIN resp.entries :
                    (fr.name \in DOMAIN resp.entries[i]) =>
                        \A id \in Range(References(resp.entries[i][fr.name].items)) :
                            /\ fr.name \in DOMAIN resp.relationLabels
                            /\ id \in DOMAIN resp.relationLabels[fr.name]
                            /\ resp.relationLabels[fr.name][id] # <<>>
                            /\ resp.relationLabels[fr.name][id]
                                  = ExpectedLabel(fr.related_object_id, id)

----------------------------------------------------------------------------
(* POST /api/workspace/objects/[name]/entries *)

\* The workspace of InitStore in which no entry has a project.
InitEntries ==
    /\ InitStore
    /\ \A f \in Files : \A r \in entry_fields[f] : ~(r.entry_id = "e1" /\ r.field_id = "f3")

\* body.fields as Object.entries gives it: pairs of distinct names; the
\* values are strings or null.  NoBody is a request without a JSON body.
MaxFields == 2
NoBody == <<[name |-> "", value |-> JsonNull]>>
Bodies ==
    LET SuppliedNames == {"status", "title", "zzz"}
        SuppliedValues == {JsonString(ValA), JsonString(ValC), JsonNull}
    IN  { b \in SeqsUpTo([name : SuppliedNames, value : SuppliedValues], MaxFields) :
            \A i, j \in DOMAIN b : i # j => b[i].name # b[j].name }
        \cup {NoBody}

\* SELECT uuid()::VARCHAR: the engine answers an id no row has.
NewId == "n1"

\* An insert loop that skips unknown names only.
InsertedFieldsWithNulls(dbFile, objectId, supplied, entryId, run) ==
    LET dbFields == duckdbQueryOnFile(run, "fields",
                        SeqOf({fl \in fields[dbFile] : fl.object_id = objectId}))
        fieldIds(n) == {dbFields[i].id : i \in {j \in DOMAIN dbFields : dbFields[j].name = n}}
    IN  [ i \in {j \in DOMAIN supplied : fieldIds(supplied[j].name) # {}} |->
            LET fieldId == CHOOSE id \in fieldIds(supplied[i].name) : TRUE
            IN  [ row |-> EntryFieldRow(entryId, fieldId,
                                        Interpolated(supplied[i].value.items)),
                  ok |-> duckdbExecOnFile(run, fieldId) ] ]

\* The loop over Object.entries(body.fields): for each supplied pair whose
\* name is in fieldMap and whose value is not null, the row of the INSERT
\* and whether the invocation succeeded.  The domain is the positions of
\* the pairs that issued an INSERT.
InsertedFields(dbFile, objectId, supplied, entryId, run) ==
    LET dbFields == duckdbQueryOnFile(run, "fields",
                        SeqOf({fl \in fields[dbFile] : fl.object_id = objectId}))
        fieldIds(n) == {dbFields[i].id : i \in {j \in DOMAIN dbFields : dbFields[j].name = n}}
    IN  [ i \in {j \in DOMAIN supplied :
                    /\ fieldIds(supplied[j].name) # {}
                    /\ supplied[j].value.kind # "null"} |->
            LET fieldId == CHOOSE id \in fieldIds(supplied[i].name) : TRUE
            IN  [ row |-> EntryFieldRow(entryId, fieldId,
                                        Interpolated(supplied[i].value.items)),
                  ok |-> duckdbExecOnFile(run, fieldId) ] ]

\* The handler's outcome when it wrote nothing.
Uncreated(response, dbFile, issued) ==
    [resp |-> response, dbFile |-> dbFile, entries |-> entries,
     entry_fields |-> entry_fields, log |-> <<>>, issued |-> issued]

POST(name, supplied, now, run) ==
    IF ~IsIdentifier(name)
    THEN Uncreated(ErrorResponse(400, "Invalid object name"), NoDb, <<>>)
    ELSE
    LET dbFile == findDuckDBForObject(name, run)
        found == FindIssued(name, run)
    IN
    IF dbFile = NoDb
    THEN Uncreated(ErrorResponse(404, "DuckDB not found"), NoDb, found)
    ELSE
    LET objs == duckdbQueryOnFile(run, "objects", SelectObjectByName(dbFile, name))
        q1 == Append(found, Stmt("SELECT id FROM objects WHERE name", dbFile))
    IN
    IF Len(objs) = 0
    THEN Uncreated(ErrorResponse(404, "Object not found"), dbFile, q1)
    ELSE
    LET objectId == objs[1].id
        idRows == duckdbQueryOnFile(run, "uuid", <<[id |-> NewId]>>)
        q2 == Append(q1, Stmt("SELECT uuid()", dbFile))
    IN
    IF Len(idRows) = 0
    THEN Uncreated(ErrorResponse(500, "Failed to generate UUID"), dbFile, q2)
    ELSE
    LET entryId == idRows[1].id
        ok == duckdbExecOnFile(run, "insert")
        insert == [stmt |-> "INSERT INTO entries", ok |-> ok]
    IN
    IF ~ok
    THEN [ Uncreated(ErrorResponse(500, "Failed to create entry"), dbFile, q2)
             EXCEPT !.log = <<insert>> ]
    ELSE
    LET created == [ id |-> Interpolated(<<entryId>>)[1],
                     object_id |-> Interpolated(<<objectId>>)[1],
                     created_at |-> now, updated_at |-> now ]
        inserted == IF supplied = NoBody THEN <<>>
                    ELSE InsertedFields(dbFile, objectId, supplied, entryId, run)
        positions == OrderBy({[at |-> i] : i \in DOMAIN inserted}, "at")
    IN  [ resp |-> [status |-> 201, entryId |-> entryId, ok |-> TRUE],
          dbFile |-> dbFile,
          entries |-> [entries EXCEPT ![dbFile] = @ \cup {created}],
          entry_fields |->
            [entry_fields EXCEPT ![dbFile] =
                @ \cup {inserted[i].row : i \in {j \in DOMAIN inserted : inserted[j].ok}}],
          log |-> <<insert>> \o
                  [k \in DOMAIN positions |->
                     [stmt |-> "INSERT INTO entry_fields",
                      ok |-> inserted[positions[k].at].ok]],
          issued |-> IF supplied = NoBody THEN q2
                     ELSE Append(q2, Stmt("SELECT id, name FROM fields", dbFile)) ]

\* The statements of the route that can fail: one of the queries, the entry
\* insert, or the insert of the value of field f1.
CreateRuns ==
    { r \in [bin : BOOLEAN, failFiles : {1..k : k \in 0..NumFiles},
             failStmts : {{}, {"objects"}, {"uuid"}, {"insert"}, {"fields"}, {"f1"}}] :
        ~r.bin => (r.failFiles = {} /\ r.failStmts = {}) }

Now == 9

\* The route answers one entry-creation request.
CreateEntry(name, supplied, run) ==
    /\ req = NoReq
    /\ LET out == POST(name, supplied, Now, run) IN
        /\ req' = [op |-> "createEntry", name |-> name, fields |-> supplied,
                   dbFile |-> out.dbFile, bin |-> run.bin, issued |-> out.issued,
                   run |-> run]
        /\ resp' = out.resp
        /\ entries' = out.entries
        /\ entry_fields' = out.entry_fields
        /\ log' = out.log
    /\ before' = Snapshot
    /\ nreq' = nreq + 1
    /\ UNCHANGED <<objects, fields, migratedDbs>>

\* One request per behaviour.
CreateEntryRequest ==
    /\ req = NoReq /\ nreq = 0
    /\ \E n \in RequestNames, b \in Bodies, run \in CreateRuns : CreateEntry(n, b, run)

NextEntries ==
    \/ CreateEntryRequest
    \/ Return

SpecEntries == InitEntries /\ [][NextEntries]_vars

----------------------------------------------------------------------------
(* Entry creation: claims *)

IsCreate == req.op = "createEntry"

\* The rows of the object the request names, in its owner file.
CreateTarget == {o \in objects[req.dbFile] : o.name = req.name}

\* C16: a createEntry that answered 201 and whose engine invocations all
\* succeeded added exactly one entries row to the owner file, with an id no
\* row had, the object's id and created_at = updated_at, and exactly one
\* entry_fields row, holding the supplied value, for each supplied pair
\* whose name is a field of the object and whose value is not null; nothing
\* else was added and no existing row was changed.
C16_CreateEntryRows ==
    (IsCreate /\ resp.status = 201 /\ req.run.failStmts = {}) =>
        LET f == req.dbFile
            added == entries[f] \ before.entries[f]
            supplied == IF req.fields = NoBody THEN <<>> ELSE req.fields
        IN  /\ \A g \in Files \ {f} :
                  entries[g] = before.entries[g]
                    /\ entry_fields[g] = before.entry_fields[g]
            /\ fields = before.fields
            /\ before.entries[f] \subseteq entries[f]
            /\ before.entry_fields[f] \subseteq entry_fields[f]
            /\ Cardinality(added) = 1
            /\ \A e \in added :
                  /\ \A g \in Files : \A x \in before.entries[g] : x.id # e.id
                  /\ e.id = resp.entryId
                  /\ \E o \in CreateTarget : e.object_id = o.id
                  /\ e.created_at = e.updated_at
                  /\ entry_fields[f] \ before.entry_fields[f] =
                        { [entry_id |-> e.id, field_id |-> p[1].id,
                           value |-> supplied[p[2]].value.items] :
                            p \in { q \in fields[f] \X DOMAIN supplied :
                                      /\ q[1].object_id = e.object_id
                                      /\ q[1].name = supplied[q[2]].name
                                      /\ supplied[q[2]].value.kind # "null" } }

\* An entry was created from a body with a field of the object whose value
\* has a quote and a name that is no field of the object.
C16_Witness ==
    /\ IsCreate
    /\ resp.status = 201
    /\ req.run.failStmts = {}
    /\ req.fields # NoBody
    /\ \E i, j \in DOMAIN req.fields :
          /\ req.fields[i].name = "status" /\ req.fields[i].value = JsonString(ValC)
          /\ req.fields[j].name = "zzz" /\ req.fields[j].value.kind = "string"
    /\ Cardinality(entry_fields[req.dbFile] \ before.entry_fields[req.dbFile]) = 1

----------------------------------------------------------------------------
(* Engine helpers: claims *)

IsHelperCall ==
    req.op \in {"duckdbQuery", "duckdbQueryAsync", "duckdbQueryOnFile",
                "duckdbQueryOnFileAsync", "duckdbExecOnFile"}

\* C17: a helper never raises to its caller, and when the binary is
\* missing or the invocation fails (missing file, malformed SQL, timeout)
\* a query helper returns exactly the empty sequence and duckdbExecOnFile
\* exactly false, with nothing that tells the failures apart.
C17_HelpersReturnSentinels ==
    IsHelperCall =>
        /\ ~resp.raised
        /\ (~req.bin \/ req.exec.failure # "none") =>
              resp = Returned(IF req.op = "duckdbExecOnFile" THEN FALSE ELSE <<>>)

\* An asynchronous query on a file ran past the timeout.
C17_Witness ==
    /\ req.op = "duckdbQueryOnFileAsync"
    /\ req.bin
    /\ req.exec.failure = "timeout"
    /\ resp.value = <<>>

----------------------------------------------------------------------------
(* The four endpoints on one workspace *)

\* One request, to any of the endpoints.
NextRoutes ==
    \/ nreq = 0 /\ DetailRequest
    \/ nreq = 0 /\ CreateEntryRequest
    \/ nreq = 0 /\ BulkDeleteRequest
    \/ nreq = 0 /\ EnumRenameRequest
    \/ Return

SpecRoutes == InitEntries /\ [][NextRoutes]_vars

----------------------------------------------------------------------------
(* Endpoints: claims *)

IsMutation == IsCreate \/ IsBulkDelete \/ IsRename
IsEndpoint == IsDetail \/ IsMutation

\* C18: an endpoint whose request is not rejected as malformed answers 503
\* when the engine binary cannot be resolved.
C18_MissingEngine503 ==
    (IsEndpoint /\ ~req.bin /\ resp.status # 400) => resp.status = 503

\* The request's name is not ^[A-Za-z_][A-Za-z0-9_]*$ (the detail endpoint
\* also takes a hyphen after the first character).
FailsCheck ==
    \/ req.name = <<>>
    \/ req.name[1] \notin {"T", "P", "x", "_"}
    \/ \E i \in 2..Len(req.name) :
          req.name[i] \notin {"T", "P", "x", "_", "0", "1"}
                               \cup (IF IsDetail THEN {"-"} ELSE {})

\* The request issued no engine invocation and changed no table.
NothingIssued ==
    /\ req.issued = <<>>
    /\ log = <<>>
    /\ fields = before.fields
    /\ entries = before.entries
    /\ entry_fields = before.entry_fields

\* C19: a request whose name fails the endpoint's identifier check issued
\* no engine invocation and no write, and was answered 400; the detail
\* endpoint answers 503 instead when the engine binary is missing.
C19_NameCheckedBeforeSql ==
    (IsEndpoint /\ FailsCheck) =>
        /\ NothingIssued
        /\ IF IsDetail /\ ~req.bin THEN resp.status = 503 ELSE resp.status = 400

\* A mutation endpoint, with the engine present, rejected a name with a
\* hyphen.
C19_Witness ==
    /\ IsMutation
    /\ FailsCheck
    /\ req.bin
    /\ \E i \in DOMAIN req.name : req.name[i] = "-"
    /\ resp.status = 400
    /\ NothingIssued

\* C19 as stated: a request whose name fails the check is answered 400 and
\* issued no engine invocation and no write.
C19_InvalidNameAlways400 ==
    (IsEndpoint /\ FailsCheck) => (NothingIssued /\ resp.status = 400)

\* C20: a mutation endpoint one of whose write invocations failed answers
\* an error payload with a non-2xx status.
C20_FailedWriteIsError ==
    (IsMutation /\ \E i \in DOMAIN log : ~log[i].ok) =>
        /\ resp.status \notin {200, 201}
        /\ "error" \in DOMAIN resp

----------------------------------------------------------------------------
(* discoverDuckDBPaths: the walk *)

\* Directory names, in the order readdirSync lists them.
ReaddirOrder == << <<"b">>, <<".", "h">>, <<"t", "m", "p">>, <<"a">> >>
DirNames == {ReaddirOrder[i] : i \in DOMAIN ReaddirOrder}

\* Directories are paths of names below the root, <<>> being the root.
MaxDepth == 2
DirPaths == SeqsUpTo(DirNames, MaxDepth)

IsPrefix(p, q) == Len(p) <= Len(q) /\ SubSeq(q, 1, Len(p)) = p

\* A disk: whether a workspace root resolves, the directories holding a
\* workspace.duckdb (up to three, one of them the root or a child of it),
\* their ancestors, and at most one directory that readdirSync cannot read.
WalkDisks ==
    { [root |-> FALSE, dbs |-> {<<>>}, unreadable |-> {}] }
    \cup
    { [root |-> TRUE, dbs |-> D, unreadable |-> U] :
        D \in {{}} \cup {{p, q, s} : p \in DirPaths, q \in DirPaths,
                                     s \in SeqsUpTo(DirNames, 1)},
        U \in {{}, {<< <<"a">> >>}} }

\* A walk that skips hidden directories only.
IsHidden(name) == name[1] = "."

\* The entries the walk does not descend into.
IsSkipped(name) ==
    \/ name[1] = "."
    \/ name \in {<<"t", "m", "p">>, <<"e", "x", "p", "o", "r", "t", "s">>,
                 <<"n", "o", "d", "e", "_", "m", "o", "d", "u", "l", "e", "s">>}

\* readdirSync(dir), directories only; an unreadable directory throws, and
\* the walk catches it.
readdirSync(disk, dir) ==
    IF dir \in disk.unreadable THEN <<>>
    ELSE SelectSeq(ReaddirOrder,
                   LAMBDA n : \E d \in disk.dbs : IsPrefix(Append(dir, n), d))

RECURSIVE walk(_, _, _)
RECURSIVE walkEntries(_, _, _, _)

\* The for loop of walk over entries[i..].
walkEntries(disk, dir, listed, i) ==
    IF i > Len(listed) THEN <<>>
    ELSE (IF IsSkipped(listed[i]) THEN <<>>
          ELSE walk(disk, Append(dir, listed[i]), Len(dir) + 1))
         \o walkEntries(disk, dir, listed, i + 1)

\* walk(dir, depth): what it pushes on results, in order.
walk(disk, dir, depth) ==
    (IF dir \in disk.dbs THEN <<[path |-> dir, depth |-> depth]>> ELSE <<>>)
    \o walkEntries(disk, dir, readdirSync(disk, dir), 1)

\* results.sort((a, b) => a.depth - b.depth): a stable sort.
RECURSIVE SortByDepth(_, _)
SortByDepth(results, d) ==
    IF \A i \in DOMAIN results : results[i].depth < d THEN <<>>
    ELSE SelectSeq(results, LAMBDA r : r.depth = d) \o SortByDepth(results, d + 1)

\* discoverDuckDBPaths() on a disk: the directories of the files found.
discoverOnDisk(disk) ==
    IF ~disk.root THEN <<>>
    ELSE LET sorted == SortByDepth(walk(disk, <<>>, 0), 0)
         IN  [i \in DOMAIN sorted |-> sorted[i].path]

DiscoverCall(disk) ==
    /\ req = NoReq
    /\ req' = [op |-> "discoverDuckDBPaths", disk |-> disk]
    /\ resp' = [paths |-> discoverOnDisk(disk)]
    /\ UNCHANGED <<db, log, before, nreq, migratedDbs>>

NextWalk ==
    \/ \E disk \in WalkDisks : DiscoverCall(disk)
    \/ Return

SpecWalk == InitEmpty /\ [][NextWalk]_vars

----------------------------------------------------------------------------
(* discoverDuckDBPaths: claims *)

IsDiscover == req.op = "discoverDuckDBPaths"

\* The position of a name in the listing order.
ListedAt(n) == CHOOSE i \in DOMAIN ReaddirOrder : ReaddirOrder[i] = n

\* The walk reaches path p before path q of the same depth.
WalkedBefore(p, q) ==
    \E k \in DOMAIN p :
        /\ SubSeq(p, 1, k - 1) = SubSeq(q, 1, k - 1)
        /\ ListedAt(p[k]) < ListedAt(q[k])

----------------------------------------------------------------------------
(* Enum rename: input validation *)

\* The rows of table rows whose enum_values has an empty-string element.
WithEmptyEnumValue(rows) ==
    { r.id : r \in { x \in rows :
                      /\ x.enum_values.kind = "array"
                      /\ \E i \in DOMAIN x.enum_values.items :
                            x.enum_values.items[i] = <<>> } }

\* C30: after an enum rename answered with success, no field has an
\* empty-string enum value that it did not have before.
C30_NoNewEmptyEnumValue ==
    (IsRename /\ resp.status = 200) =>
        \A f \in Files :
            WithEmptyEnumValue(fields[f]) \subseteq WithEmptyEnumValue(before.fields[f])

----------------------------------------------------------------------------
(* Enum renames, statement by statement *)

\* Each engine statement of PATCH is its own process invocation, so two
\* requests in flight interleave between statements.  req.procs holds, for
\* each request, where its handler is and the handler's local variables.
Procs == {"p1", "p2"}

NotStarted ==
    [pc |-> "idle", oldValue |-> <<>>, newValue |-> <<>>, dbFile |-> NoDb,
     objectId |-> "", renamed |-> <<>>, status |-> 0]

ProcsNow == IF req = NoReq THEN [p \in Procs |-> NotStarted] ELSE req.procs

\* The handler of p moves on, leaving the tables as they are.
Proceed(p, proc) ==
    /\ req' = [op |-> "renames", procs |-> [ProcsNow EXCEPT ![p] = proc]]
    /\ before' = IF req = NoReq THEN Snapshot ELSE before

Answer(proc, status) == [proc EXCEPT !.pc = "done", !.status = status]

\* Lines 21-50: the name check, the locator and the body checks, for a
\* rename of field f1 of Task.
RenameStart(p, oldValue, newValue) ==
    /\ ProcsNow[p].pc = "idle"
    /\ LET run == [bin |-> TRUE, failFiles |-> {}, failStmts |-> {}]
           dbFile == findDuckDBForObject(Task, run)
           proc == [NotStarted EXCEPT !.oldValue = oldValue, !.newValue = newValue,
                                      !.dbFile = dbFile]
       IN  Proceed(p,
              IF ~IsIdentifier(Task) THEN Answer(proc, 400)
              ELSE IF dbFile = NoDb THEN Answer(proc, 404)
              ELSE IF oldValue = <<>> \/ newValue = <<>> THEN Answer(proc, 400)
              ELSE IF SameAfterTrim(oldValue, newValue) THEN Answer(proc, 200)
              ELSE [proc EXCEPT !.pc = "objects"])
    /\ UNCHANGED <<db, resp, log, nreq, migratedDbs>>

\* Lines 52-62: SELECT id FROM objects.
RenameQueryObjects(p, ok) ==
    /\ ProcsNow[p].pc = "objects"
    /\ LET proc == ProcsNow[p]
           objs == IF ok THEN SelectObjectByName(proc.dbFile, Task) ELSE <<>>
       IN  Proceed(p,
              IF Len(objs) = 0 THEN Answer(proc, 404)
              ELSE [proc EXCEPT !.pc = "fields", !.objectId = objs[1].id])
    /\ UNCHANGED <<db, resp, log, nreq, migratedDbs>>

\* Lines 64-104: SELECT ... FROM fields, and the array to be written.
RenameQueryFields(p, ok) ==
    /\ ProcsNow[p].pc = "fields"
    /\ LET proc == ProcsNow[p]
           flds == IF ok THEN SelectField(proc.dbFile, "f1", proc.objectId) ELSE <<>>
           enumValues == IF flds[1].enum_values.kind = "null" THEN <<>>
                         ELSE flds[1].enum_values.items
           idx == IndexOf(enumValues, trim(proc.oldValue))
       IN  Proceed(p,
              IF Len(flds) = 0 THEN Answer(proc, 404)
              ELSE IF idx = 0 THEN Answer(proc, 404)
              ELSE IF Includes(enumValues, trim(proc.newValue)) THEN Answer(proc, 409)
              ELSE [proc EXCEPT !.pc = "write1",
                                !.renamed = ReplaceAt(enumValues, idx, trim(proc.newValue))])
    /\ UNCHANGED <<db, resp, log, nreq, migratedDbs>>

\* Lines 106-108: UPDATE fields SET enum_values; the result is dropped.
RenameWriteFields(p, ok) ==
    /\ ProcsNow[p].pc = "write1"
    /\ LET proc == ProcsNow[p] IN
        /\ Proceed(p, [proc EXCEPT !.pc = "write2"])
        /\ fields' = IF ok
                     THEN [fields EXCEPT ![proc.dbFile] =
                            UpdateFieldEnumValues(fields[proc.dbFile], "f1", proc.renamed)]
                     ELSE fields
        /\ log' = Append(log, [stmt |-> "UPDATE fields", ok |-> ok, proc |-> p])
    /\ UNCHANGED <<objects, entries, entry_fields, resp, nreq, migratedDbs>>

\* Lines 110-115: UPDATE entry_fields SET value, and the response.
RenameWriteEntryFields(p, ok) ==
    /\ ProcsNow[p].pc = "write2"
    /\ LET proc == ProcsNow[p] IN
        /\ Proceed(p, Answer(proc, 200))
        /\ entry_fields' =
                IF ok
                THEN [entry_fields EXCEPT ![proc.dbFile] =
                        UpdateEntryFieldValues(entry_fields[proc.dbFile], "f1",
                                               trim(proc.oldValue), trim(proc.newValue))]
                ELSE entry_fields
        /\ log' = Append(log, [stmt |-> "UPDATE entry_fields", ok |-> ok, proc |-> p])
    /\ UNCHANGED <<objects, fields, entries, resp, nreq, migratedDbs>>

NextRenames ==
    \/ \E p \in Procs, old \in {ValA, ValB}, new \in {ValC, ValPadA, <<"x">>} :
            RenameStart(p, old, new)
    \/ \E p \in Procs, ok \in BOOLEAN : RenameQueryObjects(p, ok)
    \/ \E p \in Procs, ok \in BOOLEAN : RenameQueryFields(p, ok)
    \/ \E p \in Procs, ok \in BOOLEAN : RenameWriteFields(p, ok)
    \/ \E p \in Procs, ok \in BOOLEAN : RenameWriteEntryFields(p, ok)

SpecRenames == Init /\ [][NextRenames]_vars

----------------------------------------------------------------------------
(* Enum renames, statement by statement: claims *)

IsRenames == req # NoReq /\ req.op = "renames"

\* The enum values stored for field f1 in table rows.
StoredEnum(rows) ==
    LET r == CHOOSE x \in rows : x.id = "f1"
    IN  IF r.enum_values.kind = "null" THEN <<>> ELSE r.enum_values.items

\* C21: when two renames of distinct values of one field, to distinct new
\* values, have both answered success with every statement succeeding,
\* enum_values holds each new value at the index of the value it replaced,
\* and every value of the field that was an enum value before still is one.
C21_ConcurrentRenamesConverge ==
    ( /\ IsRenames
      /\ \A p \in Procs : req.procs[p].pc = "done" /\ req.procs[p].status = 200
      /\ Len(log) = 4
      /\ \A i \in DOMAIN log : log[i].ok
      /\ trim(req.procs["p1"].oldValue) # trim(req.procs["p2"].oldValue)
      /\ trim(req.procs["p1"].newValue) # trim(req.procs["p2"].newValue) )
    =>
        LET f == req.procs["p1"].dbFile
            was == StoredEnum(before.fields[f])
            now == StoredEnum(fields[f])
        IN  /\ \A p \in Procs :
                  now[IndexOf(was, trim(req.procs[p].oldValue))]
                      = trim(req.procs[p].newValue)
            /\ \A r \in entry_fields[f] :
                  ( /\ r.field_id = "f1"
                    /\ \E r0 \in before.entry_fields[f] :
                          /\ r0.entry_id = r.entry_id
                          /\ r0.field_id = "f1"
                          /\ Includes(was, r0.value) )
                  => Includes(now, r.value)

\* C23: while one rename runs alone, an entry value that the rename set to
\* the new value is an element of the field's stored enum_values.
C23_DefinitionBeforeValues ==
    IsRenames =>
        \A p \in Procs :
            (\A q \in Procs \ {p} : req.procs[q].pc = "idle") =>
                LET proc == req.procs[p] IN
                proc.dbFile # NoDb =>
                    \A r \in entry_fields[proc.dbFile] :
                        ( /\ r.field_id = "f1"
                          /\ r.value = trim(proc.newValue)
                          /\ r \notin before.entry_fields[proc.dbFile] )
                        => Includes(StoredEnum(fields[proc.dbFile]), r.value)

----------------------------------------------------------------------------
(* Object detail: the returned entries *)

----------------------------------------------------------------------------
(* resolveDisplayField on its own *)

\* resolveDisplayField on an object and its fields in sort order.
DisplayFieldCall(obj, objFields) ==
    /\ req = NoReq
    /\ req' = [op |-> "resolveDisplayField", obj |-> obj, objFields |-> objFields]
    /\ resp' = [name |-> resolveDisplayField(obj, objFields)]
    /\ UNCHANGED <<db, log, before, nreq, migratedDbs>>

NextDisplay ==
    \/ \E display \in {"", "code", "status"},
          objFields \in SeqsUpTo([name : {"status", "Full Name", "username", "TITLE",
                                          "job-title", "notes"},
                                  type : {"text", "enum"}], MaxFields) :
            /\ \A i, j \in DOMAIN objFields : i # j => objFields[i].name # objFields[j].name
            /\ DisplayFieldCall([id |-> "o1", name |-> Task, display_field |-> display],
                                objFields)
    \/ Return

SpecDisplay == InitEmpty /\ [][NextDisplay]_vars

----------------------------------------------------------------------------
(* resolveDisplayField: claims *)

\* C25: the result is the configured display_field when there is one;
\* else the name of the first field whose name has the word name or title
\* in any case; else the name of the first text field; else the name of
\* the first field; else "id".
C25_DisplayFieldPriority ==
    req.op = "resolveDisplayField" =>
        LET fs == req.objFields
            named(i) == fs[i].name \in {"Full Name", "TITLE", "job-title"}
            text(i) == fs[i].type = "text"
            firstOf(i, P(_)) == P(i) /\ \A j \in 1..(i - 1) : ~P(j)
        IN  IF req.obj.display_field # "" THEN resp.name = req.obj.display_field
            ELSE IF \E i \in DOMAIN fs : named(i)
            THEN \E i \in DOMAIN fs : firstOf(i, named) /\ resp.name = fs[i].name
            ELSE IF \E i \in DOMAIN fs : text(i)
            THEN \E i \in DOMAIN fs : firstOf(i, text) /\ resp.name = fs[i].name
            ELSE IF fs # <<>> THEN resp.name = fs[1].name
            ELSE resp.name = "id"

\* No configured field, a text field first and a field named Full Name
\* after it: the second is the display field.
C25_Witness ==
    /\ req.op = "resolveDisplayField"
    /\ req.obj.display_field = ""
    /\ Len(req.objFields) = 2
    /\ req.objFields[1] = [name |-> "notes", type |-> "text"]
    /\ req.objFields[2].name = "Full Name"
    /\ resp.name = "Full Name"

----------------------------------------------------------------------------
(* Detail requests of one process, one after another *)

MaxDetails == 2

DetailSequence ==
    /\ req = NoReq
    /\ nreq < MaxDetails
    /\ \E n \in DetailNames, run \in DetailRuns : Detail(n, run)

NextDetails ==
    \/ DetailSequence
    \/ Return

SpecDetails == InitEntries /\ [][NextDetails]_vars

\* The request ran the ALTER TABLE migration.
Altered == \E i \in DOMAIN log : log[i].stmt = "ALTER TABLE objects"

\* C26: a detail request runs the migration only on a file that was not in
\* the visited set when the request came, and after it has, the file is in
\* the set whether the ALTER succeeded or failed; no file leaves the set;
\* and a request whose ALTER failed is answered as it would have been had
\* the ALTER succeeded.
C26_MigrationOncePerFile ==
    IsDetail =>
        /\ req.migrated \subseteq migratedDbs
        /\ Altered => (req.dbFile \notin req.migrated /\ req.dbFile \in migratedDbs)
        /\ Len(log) <= 1
        /\ (Altered /\ req.run.failStmts = {"alter"}) =>
              resp = GET(req.name, [req.run EXCEPT !.failStmts = {}]).resp

\* The second request of the process, for a file that is in the visited
\* set: it is answered without another ALTER.
C26_Witness ==
    /\ IsDetail
    /\ nreq = 2
    /\ req.dbFile # NoDb
    /\ req.dbFile \in req.migrated
    /\ ~Altered
    /\ resp.status = 200

----------------------------------------------------------------------------
(* Bulk delete: values of foreign entries *)

\* C27: a bulk delete for object A removes no EntryField row of an entry
\* whose object is not A.
C27_ForeignValuesKept ==
    IsBulkDelete =>
        \A f \in Files : \A r \in before.entry_fields[f] \ entry_fields[f] :
            \A e \in before.entries[f] :
                e.id = r.entry_id => e.object_id \in NamedObjectIds(f)

----------------------------------------------------------------------------
(* Endpoints: the names accepted *)

\* The request's name matches ^[A-Za-z_][A-Za-z0-9_-]*$.
MatchesNamePattern ==
    /\ req.name # <<>>
    /\ req.name[1] \in {"T", "P", "x", "_"}
    /\ \A i \in 2..Len(req.name) : req.name[i] \in {"T", "P", "x", "_", "0", "1", "-"}

\* C28: no endpoint rejects as invalid a name that matches the pattern.
C28_SameNamesEverywhere ==
    (IsEndpoint /\ MatchesNamePattern) =>
        ~("error" \in DOMAIN resp /\ resp.error = "Invalid object name")

----------------------------------------------------------------------------
(* ObjectKanban: optimistic moves of one card *)

\* The board's columns and the number of drags of the card.
Columns == {"todo", "doing", "review", "done"}
MaxDrags == 2

\* The board is mounted with the card in column value: localEntries is the
\* entries prop.  pending holds the PATCH requests in flight, each with the
\* targetColumn and the currentValue its handler captured.
BoardMount(value) ==
    /\ req = NoReq
    /\ req' = [op |-> "kanban", local |-> value, original |-> value, drags |-> 0,
               pending |-> {}, refreshed |-> FALSE]
    /\ UNCHANGED <<db, resp, log, before, nreq, migratedDbs>>

\* handleDragEnd over column targetColumn: nothing when the card is there
\* already; otherwise the optimistic update and the PATCH.
handleDragEnd(targetColumn) ==
    /\ req # NoReq /\ req.op = "kanban"
    /\ req.drags < MaxDrags
    /\ req.local # targetColumn
    /\ req' = [req EXCEPT !.local = targetColumn,
                          !.drags = @ + 1,
                          !.pending = @ \cup {[drag |-> req.drags + 1,
                                               targetColumn |-> targetColumn,
                                               currentValue |-> req.local]}]
    /\ UNCHANGED <<db, resp, log, before, nreq, migratedDbs>>

\* A PATCH answered not ok, or fetch threw: the card is set to the value
\* the handler captured.
PatchFailed(patch) ==
    /\ req # NoReq /\ req.op = "kanban"
    /\ patch \in req.pending
    /\ req' = [req EXCEPT !.local = patch.currentValue, !.pending = @ \ {patch}]
    /\ UNCHANGED <<db, resp, log, before, nreq, migratedDbs>>

\* A PATCH answered ok: onRefresh, and the entries prop brings the stored
\* value.
PatchSucceeded(patch) ==
    /\ req # NoReq /\ req.op = "kanban"
    /\ patch \in req.pending
    /\ req' = [req EXCEPT !.local = patch.targetColumn, !.pending = @ \ {patch},
                          !.refreshed = TRUE]
    /\ UNCHANGED <<db, resp, log, before, nreq, migratedDbs>>

Patches == [drag : 1..MaxDrags, targetColumn : Columns, currentValue : Columns]

NextKanban ==
    \/ \E value \in Columns : BoardMount(value)
    \/ \E targetColumn \in Columns : handleDragEnd(targetColumn)
    \/ \E patch \in Patches : PatchFailed(patch)
    \/ \E patch \in Patches : PatchSucceeded(patch)

SpecKanban == InitEmpty /\ [][NextKanban]_vars

\* C29: when the card has been dragged and every PATCH has resolved, all of
\* them failed, the card is shown in the column it had before the first
\* drag.
C29_FailedMovesReverted ==
    ( /\ req # NoReq /\ req.op = "kanban"
      /\ req.drags > 0
      /\ req.pending = {}
      /\ ~req.refreshed )
    => req.local = req.original

====
